---------------------------- MODULE Spec2Model ----------------------------
(***************************************************************************)
(* A model of the BME280 driver of sensor-hal (src/sensor/bme280.rs): the  *)
(* handle (address, calibration), the three public operations new, read    *)
(* and reset as sequences of bus transactions and delays, the calibration  *)
(* parser and the fixed-point compensation functions.                      *)
(*                                                                         *)
(* Machine integers.  TLC's integers are 32 bits wide and the pressure     *)
(* formula works on i64, so every value of the compensation functions is   *)
(* an exact integer in sign-magnitude form, [neg, mag], mag a little-      *)
(* endian sequence of 15-bit limbs without a leading zero limb.  A Rust    *)
(* operation is the exact operation followed by the wrap to the width of   *)
(* its type; `+`, `-` and `*` whose exact result does not fit panic in a   *)
(* build with overflow checks and wrap in one without.                     *)
(***************************************************************************)
EXTENDS Integers, Sequences, FiniteSets, TLC

Base == 2 ^ 15

(* k bits are LimbsOf(k) whole limbs and BitsOf(k) bits of the next *)
LimbsOf(k) == k \div 15
BitsOf(k) == k % 15

Pow2(k) == 2 ^ k

(* ---------------- magnitudes: little-endian sequences of limbs --------- *)

RECURSIVE MNorm(_)
MNorm(m) ==
    IF m = <<>> THEN <<>>
    ELSE IF m[Len(m)] = 0 THEN MNorm(SubSeq(m, 1, Len(m) - 1))
    ELSE m

MLimb(m, i) == IF i <= Len(m) THEN m[i] ELSE 0

RECURSIVE MAddC(_, _, _, _)
MAddC(a, b, i, c) ==
    IF i > Len(a) /\ i > Len(b)
    THEN (IF c = 0 THEN <<>> ELSE <<c>>)
    ELSE LET s == MLimb(a, i) + MLimb(b, i) + c
         IN  <<s % Base>> \o MAddC(a, b, i + 1, s \div Base)

MAdd(a, b) == MAddC(a, b, 1, 0)

RECURSIVE MCmpAt(_, _, _)
MCmpAt(a, b, i) ==
    IF i = 0 THEN 0
    ELSE IF MLimb(a, i) < MLimb(b, i) THEN -1
    ELSE IF MLimb(a, i) > MLimb(b, i) THEN 1
    ELSE MCmpAt(a, b, i - 1)

(* -1, 0, 1 as a < b, a = b, a > b *)
MCmp(a, b) == MCmpAt(a, b, IF Len(a) > Len(b) THEN Len(a) ELSE Len(b))

RECURSIVE MSubB(_, _, _, _)
MSubB(a, b, i, brw) ==
    IF i > Len(a) THEN <<>>
    ELSE LET d == MLimb(a, i) - MLimb(b, i) - brw
         IN  IF d < 0 THEN <<d + Base>> \o MSubB(a, b, i + 1, 1)
             ELSE <<d>> \o MSubB(a, b, i + 1, 0)

(* a - b for a >= b *)
MSub(a, b) == MNorm(MSubB(a, b, 1, 0))

RECURSIVE MMulSmallC(_, _, _, _)
MMulSmallC(a, d, i, c) ==
    IF i > Len(a)
    THEN (IF c = 0 THEN <<>> ELSE <<c>>)
    ELSE LET s == a[i] * d + c
         IN  <<s % Base>> \o MMulSmallC(a, d, i + 1, s \div Base)

(* a * d for one limb d *)
MMulSmall(a, d) == MNorm(MMulSmallC(a, d, 1, 0))

RECURSIVE Zeros(_)
Zeros(n) == IF n <= 0 THEN <<>> ELSE <<0>> \o Zeros(n - 1)

RECURSIVE MMulAt(_, _, _)
MMulAt(a, b, j) ==
    IF j > Len(b) THEN <<>>
    ELSE MAdd(MNorm(Zeros(j - 1) \o MMulSmall(a, b[j])), MMulAt(a, b, j + 1))

MMul(a, b) == MNorm(MMulAt(a, b, 1))

(* a * 2^k *)
MShl(a, k) ==
    IF a = <<>> THEN <<>>
    ELSE Zeros(LimbsOf(k)) \o MMulSmall(a, Pow2(BitsOf(k)))

(* limbs i.. of floor(a / 2^r) for r < 15 *)
RECURSIVE MShrBits(_, _, _)
MShrBits(a, r, i) ==
    IF i > Len(a) THEN <<>>
    ELSE <<(a[i] \div Pow2(r)) + (MLimb(a, i + 1) % Pow2(r)) * (Base \div Pow2(r))>>
         \o MShrBits(a, r, i + 1)

(* floor(a / 2^k) *)
MShr(a, k) == MNorm(MShrBits(a, BitsOf(k), LimbsOf(k) + 1))

(* limbs i..q of a, then the low r bits of limb q + 1 *)
RECURSIVE MLowBits(_, _, _, _)
MLowBits(a, q, r, i) ==
    IF i > q THEN <<MLimb(a, i) % Pow2(r)>>
    ELSE <<MLimb(a, i)>> \o MLowBits(a, q, r, i + 1)

(* a mod 2^k *)
MModPow2(a, k) == MNorm(MLowBits(a, LimbsOf(k), BitsOf(k), 1))

(* the largest digit d, built from bit k down, with (d0 + d) * b <= r *)
RECURSIVE MDigit(_, _, _, _)
MDigit(r, b, d0, k) ==
    IF k < 0 THEN d0
    ELSE IF MCmp(MMulSmall(b, d0 + Pow2(k)), r) <= 0
         THEN MDigit(r, b, d0 + Pow2(k), k - 1)
         ELSE MDigit(r, b, d0, k - 1)

(* long division, limb i of a downwards, rem the running remainder;       *)
(* yields <<quotient limbs i..1, little-endian>>                          *)
RECURSIVE MDivAt(_, _, _, _)
MDivAt(a, b, i, rem) ==
    IF i = 0 THEN <<>>
    ELSE LET r == MNorm(<<a[i]>> \o rem)
             d == MDigit(r, b, 0, 14)
         IN  MDivAt(a, b, i - 1, MSub(r, MMulSmall(b, d))) \o <<d>>

(* floor(a / b) for b > 0 *)
MDiv(a, b) == MNorm(MDivAt(a, b, Len(a), <<>>))

(* ---------------- exact signed integers -------------------------------- *)

Big(neg, mag) == [neg |-> neg /\ mag # <<>>, mag |-> mag]

RECURSIVE MFromNat(_)
MFromNat(n) == IF n = 0 THEN <<>> ELSE <<n % Base>> \o MFromNat(n \div Base)

(* of a TLC integer *)
I(n) == IF n < 0 THEN Big(TRUE, MFromNat(-n)) ELSE Big(FALSE, MFromNat(n))

BZero == I(0)

BPow2(k) == Big(FALSE, MShl(<<1>>, k))

BNeg(x) == Big(~x.neg, x.mag)

BAdd(x, y) ==
    IF x.neg = y.neg THEN Big(x.neg, MAdd(x.mag, y.mag))
    ELSE IF MCmp(x.mag, y.mag) >= 0 THEN Big(x.neg, MSub(x.mag, y.mag))
    ELSE Big(y.neg, MSub(y.mag, x.mag))

BSub(x, y) == BAdd(x, BNeg(y))

BMul(x, y) == Big(x.neg # y.neg, MMul(x.mag, y.mag))

(* -1, 0, 1 *)
BCmp(x, y) ==
    IF x.neg /\ ~y.neg THEN -1
    ELSE IF ~x.neg /\ y.neg THEN 1
    ELSE IF x.neg THEN MCmp(y.mag, x.mag)
    ELSE MCmp(x.mag, y.mag)

BLe(x, y) == BCmp(x, y) <= 0
BLt(x, y) == BCmp(x, y) < 0

(* floor(x / 2^k): the arithmetic right shift of a signed integer *)
BShr(x, k) ==
    IF x.neg
    THEN Big(TRUE, MShr(MAdd(x.mag, MSub(MShl(<<1>>, k), <<1>>)), k))
    ELSE Big(FALSE, MShr(x.mag, k))

BShlExact(x, k) == Big(x.neg, MShl(x.mag, k))

(* x / y rounded toward zero, y # 0: Rust's integer division *)
BDivTrunc(x, y) == Big(x.neg # y.neg, MDiv(x.mag, y.mag))

(* the value of the low w bits of x read as a two's-complement number *)
Wrap(x, w) ==
    LET m == MModPow2(x.mag, w)
        u == IF x.neg /\ m # <<>> THEN MSub(MShl(<<1>>, w), m) ELSE m
    IN  IF MCmp(u, MShl(<<1>>, w - 1)) >= 0
        THEN Big(TRUE, MSub(MShl(<<1>>, w), u))
        ELSE Big(FALSE, u)

Fits(x, w) == Wrap(x, w) = x

(* Rust's `<<` on a signed integer of width w: bits shifted out are lost,  *)
(* without a panic in any build (k < w).                                   *)
Shl(x, k, w) == Wrap(BShlExact(x, k), w)

RECURSIVE MToNat(_, _)
MToNat(m, i) == IF i > Len(m) THEN 0 ELSE m[i] + Base * MToNat(m, i + 1)

(* a TLC integer of an exact integer below 2^30 in magnitude *)
ToInt(x) == IF x.neg THEN -MToNat(x.mag, 1) ELSE MToNat(x.mag, 1)

(* ---------------- bytes and bit operations ------------------------------ *)

Byte == 0..255

(* a | b for naturals *)
RECURSIVE BitOr(_, _)
BitOr(a, b) ==
    IF a = 0 THEN b
    ELSE IF b = 0 THEN a
    ELSE (IF a % 2 = 1 \/ b % 2 = 1 THEN 1 ELSE 0) + 2 * BitOr(a \div 2, b \div 2)

(* a & b for naturals *)
RECURSIVE BitAnd(_, _)
BitAnd(a, b) ==
    IF a = 0 \/ b = 0 THEN 0
    ELSE (IF a % 2 = 1 /\ b % 2 = 1 THEN 1 ELSE 0) + 2 * BitAnd(a \div 2, b \div 2)

u16_from_le_bytes(b0, b1) == b0 + 256 * b1

(* the pair read high byte first *)
i16_from_be_bytes(b0, b1) ==
    IF b1 + 256 * b0 >= 32768 THEN b1 + 256 * b0 - 65536 ELSE b1 + 256 * b0

i16_from_le_bytes(b0, b1) ==
    IF b0 + 256 * b1 >= 32768 THEN b0 + 256 * b1 - 65536 ELSE b0 + 256 * b1

(* `x as i8` of a byte *)
as_i8(b) == IF b >= 128 THEN b - 256 ELSE b

(* ---------------- Calibration ------------------------------------------- *)

(* Calibration::from taking dig_h6 from the byte before the last *)
CalibrationFrom_h6_from_low_byte(tp_calib, h_calib) ==
    [ dig_t1 |-> u16_from_le_bytes(tp_calib[1], tp_calib[2]),
      dig_t2 |-> i16_from_le_bytes(tp_calib[3], tp_calib[4]),
      dig_t3 |-> i16_from_le_bytes(tp_calib[5], tp_calib[6]),
      dig_p1 |-> u16_from_le_bytes(tp_calib[7], tp_calib[8]),
      dig_p2 |-> i16_from_le_bytes(tp_calib[9], tp_calib[10]),
      dig_p3 |-> i16_from_le_bytes(tp_calib[11], tp_calib[12]),
      dig_p4 |-> i16_from_le_bytes(tp_calib[13], tp_calib[14]),
      dig_p5 |-> i16_from_le_bytes(tp_calib[15], tp_calib[16]),
      dig_p6 |-> i16_from_le_bytes(tp_calib[17], tp_calib[18]),
      dig_p7 |-> i16_from_le_bytes(tp_calib[19], tp_calib[20]),
      dig_p8 |-> i16_from_le_bytes(tp_calib[21], tp_calib[22]),
      dig_p9 |-> i16_from_le_bytes(tp_calib[23], tp_calib[24]),
      dig_h1 |-> h_calib[1],
      dig_h2 |-> i16_from_le_bytes(h_calib[2], h_calib[3]),
      dig_h3 |-> h_calib[4],
      dig_h4 |-> BitOr(h_calib[5] * 16, BitAnd(h_calib[6], 15)),
      dig_h5 |-> BitOr(h_calib[7] * 16, h_calib[6] \div 16),
      dig_h6 |-> as_i8(h_calib[6]) ]

(* Calibration::from sign-extending the bytes it shifts into dig_h4 and    *)
(* dig_h5                                                                  *)
CalibrationFrom_sign_extending(tp_calib, h_calib) ==
    [ dig_t1 |-> u16_from_le_bytes(tp_calib[1], tp_calib[2]),
      dig_t2 |-> i16_from_le_bytes(tp_calib[3], tp_calib[4]),
      dig_t3 |-> i16_from_le_bytes(tp_calib[5], tp_calib[6]),
      dig_p1 |-> u16_from_le_bytes(tp_calib[7], tp_calib[8]),
      dig_p2 |-> i16_from_le_bytes(tp_calib[9], tp_calib[10]),
      dig_p3 |-> i16_from_le_bytes(tp_calib[11], tp_calib[12]),
      dig_p4 |-> i16_from_le_bytes(tp_calib[13], tp_calib[14]),
      dig_p5 |-> i16_from_le_bytes(tp_calib[15], tp_calib[16]),
      dig_p6 |-> i16_from_le_bytes(tp_calib[17], tp_calib[18]),
      dig_p7 |-> i16_from_le_bytes(tp_calib[19], tp_calib[20]),
      dig_p8 |-> i16_from_le_bytes(tp_calib[21], tp_calib[22]),
      dig_p9 |-> i16_from_le_bytes(tp_calib[23], tp_calib[24]),
      dig_h1 |-> h_calib[1],
      dig_h2 |-> i16_from_le_bytes(h_calib[2], h_calib[3]),
      dig_h3 |-> h_calib[4],
      dig_h4 |-> as_i8(h_calib[5]) * 16 + BitAnd(h_calib[6], 15),
      dig_h5 |-> as_i8(h_calib[7]) * 16 + (h_calib[6] \div 16),
      dig_h6 |-> as_i8(h_calib[7]) ]

(* Calibration::from; tp_calib[1..24] and h_calib[1..7] are the source's   *)
(* tp_calib[0..23] and h_calib[0..6].                                      *)
CalibrationFrom(tp_calib, h_calib) ==
    [ dig_t1 |-> u16_from_le_bytes(tp_calib[1], tp_calib[2]),
      dig_t2 |-> i16_from_le_bytes(tp_calib[3], tp_calib[4]),
      dig_t3 |-> i16_from_le_bytes(tp_calib[5], tp_calib[6]),
      dig_p1 |-> u16_from_le_bytes(tp_calib[7], tp_calib[8]),
      dig_p2 |-> i16_from_le_bytes(tp_calib[9], tp_calib[10]),
      dig_p3 |-> i16_from_le_bytes(tp_calib[11], tp_calib[12]),
      dig_p4 |-> i16_from_le_bytes(tp_calib[13], tp_calib[14]),
      dig_p5 |-> i16_from_le_bytes(tp_calib[15], tp_calib[16]),
      dig_p6 |-> i16_from_le_bytes(tp_calib[17], tp_calib[18]),
      dig_p7 |-> i16_from_le_bytes(tp_calib[19], tp_calib[20]),
      dig_p8 |-> i16_from_le_bytes(tp_calib[21], tp_calib[22]),
      dig_p9 |-> i16_from_le_bytes(tp_calib[23], tp_calib[24]),
      dig_h1 |-> h_calib[1],
      dig_h2 |-> i16_from_le_bytes(h_calib[2], h_calib[3]),
      dig_h3 |-> h_calib[4],
      dig_h4 |-> BitOr(h_calib[5] * 16, BitAnd(h_calib[6], 15)),
      dig_h5 |-> BitOr(h_calib[7] * 16, h_calib[6] \div 16),
      dig_h6 |-> as_i8(h_calib[7]) ]

(* ---------------- compensation ------------------------------------------ *)

(* A floating-point result as the exact quotient num / den the code forms  *)
(* before the conversion to f32 (the rounding to f32 is not applied).      *)
F(num, den) == [num |-> num, den |-> den]

(* compensate_temperature shifting the first product by 12, not 11 *)
compensate_temperature_coarse(calib, adc_t) ==
    LET dig_t1 == I(calib.dig_t1)
        dig_t2 == I(calib.dig_t2)
        dig_t3 == I(calib.dig_t3)
        adc == I(adc_t)
        s1 == BSub(BShr(adc, 3), Shl(dig_t1, 1, 32))
        m1 == BMul(Wrap(s1, 32), dig_t2)
        var1 == BShr(Wrap(m1, 32), 12)
        d == BSub(BShr(adc, 4), dig_t1)
        sq == BMul(Wrap(d, 32), Wrap(d, 32))
        m2 == BMul(BShr(Wrap(sq, 32), 12), dig_t3)
        var2 == BShr(Wrap(m2, 32), 14)
        t_fine == BAdd(var1, var2)
        temperature == BShr(BAdd(BMul(t_fine, I(5)), I(128)), 8)
    IN  [ temperature |-> F(temperature, 100),
          t_fine |-> t_fine,
          ovf |-> ~(Fits(s1, 32) /\ Fits(m1, 32) /\ Fits(d, 32)
                    /\ Fits(sq, 32) /\ Fits(m2, 32)) ]

(* compensate_temperature.  ovf: some `-` or `*` left the i32 range, where *)
(* a build with overflow checks panics; the values are the wrapped ones.   *)
compensate_temperature(calib, adc_t) ==
    LET dig_t1 == I(calib.dig_t1)
        dig_t2 == I(calib.dig_t2)
        dig_t3 == I(calib.dig_t3)
        adc == I(adc_t)
        s1 == BSub(BShr(adc, 3), Shl(dig_t1, 1, 32))
        m1 == BMul(Wrap(s1, 32), dig_t2)
        var1 == BShr(Wrap(m1, 32), 11)
        d == BSub(BShr(adc, 4), dig_t1)
        sq == BMul(Wrap(d, 32), Wrap(d, 32))
        m2 == BMul(BShr(Wrap(sq, 32), 12), dig_t3)
        var2 == BShr(Wrap(m2, 32), 14)
        t_fine == BAdd(var1, var2)
        temperature == BShr(BAdd(BMul(t_fine, I(5)), I(128)), 8)
    IN  [ temperature |-> F(temperature, 100),
          t_fine |-> t_fine,
          ovf |-> ~(Fits(s1, 32) /\ Fits(m1, 32) /\ Fits(d, 32)
                    /\ Fits(sq, 32) /\ Fits(m2, 32)) ]

MinI64 == BNeg(BPow2(63))

(* Rust's `/` on i64: a panic in every build when the divisor is zero or   *)
(* the quotient does not fit.                                              *)
DivFaults(x, y) == y = BZero \/ (x = MinI64 /\ y = I(-1))

(* step 5 of compensate_pressure: the quotient p, whether the `/` panicked *)
(* (fault), and whether a `-` or `*` of the step overflowed                *)
pressure_step5(adc_p, var1, var2) ==
    LET p0 == BSub(I(1048576), I(adc_p))
        n1 == BSub(Shl(p0, 31, 64), var2)
        n2 == BMul(Wrap(n1, 64), I(3125))
        fault == DivFaults(Wrap(n2, 64), var1)
    IN  [ p |-> IF fault THEN BZero ELSE BDivTrunc(Wrap(n2, 64), var1),
          fault |-> fault,
          ovf |-> ~(Fits(n1, 64) /\ Fits(n2, 64)) ]

(* step 6 of compensate_pressure leaving out the dig_p7 term *)
pressure_step6_without_p7(calib, var1, ovf0, q) ==
    LET dig_p8 == I(calib.dig_p8)
        dig_p9 == I(calib.dig_p9)
        q13 == BMul(BShr(q.p, 13), BShr(q.p, 13))
        m9 == BMul(dig_p9, Wrap(q13, 64))
        v1 == BShr(Wrap(m9, 64), 25)
        m8 == BMul(dig_p8, q.p)
        v2 == BShr(Wrap(m8, 64), 19)
        a1 == BAdd(q.p, v1)
        a2 == BAdd(Wrap(a1, 64), v2)
        a3 == BShr(Wrap(a2, 64), 8)
    IN  [ pressure |-> F(Wrap(a3, 64), 256),
          denominator |-> var1,
          divided |-> TRUE,
          fault |-> q.fault,
          ovf |-> ovf0 \/ q.ovf
                  \/ ~(Fits(q13, 64) /\ Fits(m9, 64) /\ Fits(m8, 64)
                       /\ Fits(a1, 64) /\ Fits(a2, 64)) ]

(* step 6 of compensate_pressure and its return, q being step 5's outcome *)
pressure_step6(calib, var1, ovf0, q) ==
    LET dig_p7 == I(calib.dig_p7)
        dig_p8 == I(calib.dig_p8)
        dig_p9 == I(calib.dig_p9)
        q13 == BMul(BShr(q.p, 13), BShr(q.p, 13))
        m9 == BMul(dig_p9, Wrap(q13, 64))
        v1 == BShr(Wrap(m9, 64), 25)
        m8 == BMul(dig_p8, q.p)
        v2 == BShr(Wrap(m8, 64), 19)
        a1 == BAdd(q.p, v1)
        a2 == BAdd(Wrap(a1, 64), v2)
        a3 == BAdd(BShr(Wrap(a2, 64), 8), Shl(dig_p7, 4, 64))
    IN  [ pressure |-> F(Wrap(a3, 64), 256),
          denominator |-> var1,
          divided |-> TRUE,
          fault |-> q.fault,
          ovf |-> ovf0 \/ q.ovf
                  \/ ~(Fits(q13, 64) /\ Fits(m9, 64) /\ Fits(m8, 64)
                       /\ Fits(a1, 64) /\ Fits(a2, 64) /\ Fits(a3, 64)) ]

(* steps 5 and 6 of compensate_pressure: the division and what follows it  *)
pressure_divide(calib, adc_p, var1, var2, ovf0) ==
    pressure_step6(calib, var1, ovf0, pressure_step5(adc_p, var1, var2))

(* steps 1 to 3 of compensate_pressure: var2 and the denominator var1     *)
pressure_terms(calib, t_fine) ==
    LET dig_p1 == I(calib.dig_p1)
        dig_p2 == I(calib.dig_p2)
        dig_p3 == I(calib.dig_p3)
        dig_p4 == I(calib.dig_p4)
        dig_p5 == I(calib.dig_p5)
        dig_p6 == I(calib.dig_p6)
        v == BSub(t_fine, I(128000))
        vv == BMul(Wrap(v, 64), Wrap(v, 64))
        vv6 == BMul(Wrap(vv, 64), dig_p6)
        v5 == BMul(Wrap(v, 64), dig_p5)
        b1 == BAdd(Wrap(vv6, 64), Shl(Wrap(v5, 64), 17, 64))
        b2 == BAdd(Wrap(b1, 64), Shl(dig_p4, 35, 64))
        vv3 == BMul(Wrap(vv, 64), dig_p3)
        v2 == BMul(Wrap(v, 64), dig_p2)
        c1 == BAdd(BShr(Wrap(vv3, 64), 8), Shl(Wrap(v2, 64), 12, 64))
        c2 == BAdd(Shl(I(1), 47, 64), Wrap(c1, 64))
        c3 == BMul(Wrap(c2, 64), dig_p1)
    IN  [ var1 |-> BShr(Wrap(c3, 64), 33),
          var2 |-> Wrap(b2, 64),
          ovf |-> ~(Fits(v, 64) /\ Fits(vv, 64) /\ Fits(vv6, 64)
                    /\ Fits(v5, 64) /\ Fits(b1, 64) /\ Fits(b2, 64)
                    /\ Fits(vv3, 64) /\ Fits(v2, 64) /\ Fits(c1, 64)
                    /\ Fits(c2, 64) /\ Fits(c3, 64)) ]

(* pressure_guard without the test of step 4 *)
pressure_unguarded(calib, adc_p, t) ==
    pressure_divide(calib, adc_p, t.var1, t.var2, t.ovf)

(* step 4 of compensate_pressure and what it leads to, t being the         *)
(* outcome of steps 1 to 3.  denominator: var1 after step 3; divided: the  *)
(* `/` of step 5 was executed; fault: that division panicked.              *)
pressure_guard(calib, adc_p, t) ==
    IF t.var1 = BZero
    THEN [ pressure |-> F(BZero, 1), denominator |-> t.var1,
           divided |-> FALSE, fault |-> FALSE, ovf |-> t.ovf ]
    ELSE pressure_divide(calib, adc_p, t.var1, t.var2, t.ovf)

compensate_pressure(calib, adc_p, t_fine) ==
    pressure_guard(calib, adc_p, pressure_terms(calib, t_fine))

HumidityMax == I(419430400)

(* `x as u32` of an i32 *)
as_u32(x) == IF x.neg THEN BAdd(x, BPow2(32)) ELSE x

(* steps 1 and 2 of compensate_humidity: var5 == var2 * var4 *)
humidity_step2(calib, adc_h, t_fine) ==
    LET dig_h2 == I(calib.dig_h2)
        dig_h3 == I(calib.dig_h3)
        dig_h4 == I(calib.dig_h4)
        dig_h5 == I(calib.dig_h5)
        dig_h6 == I(calib.dig_h6)
        v64 == BSub(t_fine, I(76800))
        var1 == Wrap(Wrap(v64, 64), 32)
        a1 == BSub(Shl(I(adc_h), 14, 32), Shl(dig_h4, 20, 32))
        m5 == BMul(dig_h5, var1)
        a2 == BSub(Wrap(a1, 32), Wrap(m5, 32))
        a3 == BAdd(Wrap(a2, 32), I(16384))
        var2 == BShr(Wrap(a3, 32), 15)
        m6 == BMul(var1, dig_h6)
        m3 == BMul(var1, dig_h3)
        a4 == BAdd(BShr(Wrap(m3, 32), 11), I(32768))
        m7 == BMul(BShr(Wrap(m6, 32), 10), Wrap(a4, 32))
        var3 == BShr(Wrap(m7, 32), 10)
        a5 == BAdd(var3, I(2097152))
        m8 == BMul(Wrap(a5, 32), dig_h2)
        a6 == BAdd(Wrap(m8, 32), I(8192))
        var4 == BShr(Wrap(a6, 32), 14)
        m9 == BMul(var2, var4)
    IN  [ var5 |-> Wrap(m9, 32),
          ovf |-> ~(Fits(v64, 64) /\ Fits(a1, 32) /\ Fits(m5, 32)
                    /\ Fits(a2, 32) /\ Fits(a3, 32) /\ Fits(m6, 32)
                    /\ Fits(m3, 32) /\ Fits(a4, 32) /\ Fits(m7, 32)
                    /\ Fits(a5, 32) /\ Fits(m8, 32) /\ Fits(a6, 32)
                    /\ Fits(m9, 32)) ]

(* step 3 of compensate_humidity, s being the outcome of steps 1 and 2:    *)
(* var5 before the clamps                                                  *)
humidity_step3(calib, s) ==
    LET dig_h1 == I(calib.dig_h1)
        sq == BMul(BShr(s.var5, 15), BShr(s.var5, 15))
        m1 == BMul(BShr(Wrap(sq, 32), 7), dig_h1)
        a7 == BSub(s.var5, BShr(Wrap(m1, 32), 4))
    IN  [ var5 |-> Wrap(a7, 32),
          ovf |-> s.ovf \/ ~(Fits(sq, 32) /\ Fits(m1, 32) /\ Fits(a7, 32)) ]

(* steps 1 to 3 of compensate_humidity *)
humidity_var5(calib, adc_h, t_fine) ==
    humidity_step3(calib, humidity_step2(calib, adc_h, t_fine))

(* humidity_output dividing the shifted accumulator by 1024.0: the Q22.10   *)
(* value with its fraction                                                 *)
humidity_output_fractional(r) ==
    LET lo == IF BLt(r.var5, BZero) THEN BZero ELSE r.var5
        acc == IF BLt(HumidityMax, lo) THEN HumidityMax ELSE lo
    IN  [ humidity |-> F(as_u32(BShr(acc, 12)), 1024),
          var5 |-> r.var5, acc |-> acc, ovf |-> r.ovf ]

(* humidity_output without the upper clamp of step 4 *)
humidity_output_unclamped(r) ==
    LET lo == IF BLt(r.var5, BZero) THEN BZero ELSE r.var5
    IN  [ humidity |-> F(BDivTrunc(as_u32(BShr(lo, 12)), I(1024)), 1),
          var5 |-> r.var5, acc |-> lo, ovf |-> r.ovf ]

(* step 4 of compensate_humidity and its return.  var5: the accumulator    *)
(* before the clamps; acc: after them.                                     *)
humidity_output(r) ==
    LET lo == IF BLt(r.var5, BZero) THEN BZero ELSE r.var5
        acc == IF BLt(HumidityMax, lo) THEN HumidityMax ELSE lo
    IN  [ humidity |-> F(BDivTrunc(as_u32(BShr(acc, 12)), I(1024)), 1),
          var5 |-> r.var5, acc |-> acc, ovf |-> r.ovf ]

compensate_humidity(calib, adc_h, t_fine) ==
    humidity_output(humidity_var5(calib, adc_h, t_fine))

(* ---------------- the bus and the device behind it ---------------------- *)

NoErr == "NoErr"

(* B::Error, opaque to the driver *)
BusErrors == {"Nack", "ArbitrationLoss"}

(* Register r of the device whose registers hold image img: the            *)
(* calibration at 0x88..0x9F (tp), 0xA1 (a1) and 0xE1..0xE7 (e1), the      *)
(* status at 0xF3 and the sample at 0xF7..0xFE (burst).                    *)
RegByte(img, r) ==
    IF r \in 136..159 THEN img.tp[r - 135]
    ELSE IF r = 161 THEN img.a1
    ELSE IF r \in 225..231 THEN img.e1[r - 224]
    ELSE IF r = 243 THEN img.status
    ELSE IF r \in 247..254 THEN img.burst[r - 246]
    ELSE 0

(* The bus of one call, env = [img, failAt, err]: transaction number       *)
(* failAt of the call (none when 0) fails with err.                        *)
BusOk(env, n) == env.failAt # n

Delay(ms) == [kind |-> "delay", ms |-> ms]

(* bus.write_read(addr, [reg], buf) as transaction n of the call, buf      *)
(* being len bytes long; data is buf afterwards                            *)
write_read(env, n, addr, reg, len) ==
    [ ok |-> BusOk(env, n),
      data |-> IF BusOk(env, n) THEN [i \in 1..len |-> RegByte(env.img, reg + i - 1)]
               ELSE [i \in 1..len |-> 0],
      ev |-> [ kind |-> "write_read", addr |-> addr, bytes |-> <<reg>>,
               len |-> len,
               data |-> IF BusOk(env, n)
                        THEN [i \in 1..len |-> RegByte(env.img, reg + i - 1)]
                        ELSE <<>>,
               err |-> IF BusOk(env, n) THEN NoErr ELSE env.err ] ]

(* bus.write(addr, bytes) as transaction n of the call *)
write(env, n, addr, bytes) ==
    [ ok |-> BusOk(env, n),
      ev |-> [ kind |-> "write", addr |-> addr, bytes |-> bytes, len |-> 0,
               data |-> <<>>,
               err |-> IF BusOk(env, n) THEN NoErr ELSE env.err ] ]

Ok(v) == [ok |-> TRUE, val |-> v]
Err(e) == [ok |-> FALSE, err |-> e]

(* Error::Raw(err) and Error::Init *)
Raw(e) == [tag |-> "Raw", err |-> e]
ErrorInit == [tag |-> "Init", err |-> NoErr]

(* ---------------- what a call did, as its log tells --------------------- *)

IsBus(e) == e.kind \in {"write", "write_read"}

(* the bus transactions of a log, in order *)
BusEvents(log) == SelectSeq(log, IsBus)

(* a read that starts in the calibration registers, 0x88..0xA1 or          *)
(* 0xE1..0xE7                                                              *)
IsCalRead(e) ==
    e.kind = "write_read" /\ e.bytes[1] \in (136..161) \cup (225..231)

(* the bytes the device returned to the calibration reads of log *)
LoadBytes(log) ==
    LET cr == SelectSeq(log, IsCalRead)
    IN  [ tp |-> IF Len(cr) >= 1 THEN cr[1].data ELSE <<>>,
          h |-> IF Len(cr) >= 3 THEN cr[2].data \o cr[3].data ELSE <<>> ]

(* where the device's register pointer stands after the transactions of   *)
(* log, p being where it stood before: a write leaves it at the register   *)
(* it named, a read moves it past the last register read                   *)
RECURSIVE PointerFrom(_, _, _)
PointerFrom(p, log, i) ==
    IF i > Len(log) THEN p
    ELSE IF log[i].kind = "delay" \/ log[i].err # NoErr
            \/ log[i].addr \notin {118, 119}
    THEN PointerFrom(p, log, i + 1)
    ELSE IF log[i].kind = "write"
    THEN PointerFrom(log[i].bytes[1], log, i + 1)
    ELSE IF log[i].kind = "write_read"
    THEN PointerFrom((log[i].bytes[1] + log[i].len) % 256, log, i + 1)
    ELSE PointerFrom((p + log[i].len) % 256, log, i + 1)

PointerAfter(p, log) == PointerFrom(p, log, 1)

(* the device's registers ctrl_hum (0xF2), ctrl_meas (0xF4) and config     *)
(* (0xF5) as power-on and the soft reset leave them                        *)
PowerOnConfig == [ctrl_hum |-> 0, ctrl_meas |-> 0, config |-> 0]

(* the registers after the device took the write of bytes *)
DeviceWrite(dev, bytes) ==
    IF bytes = <<224, 182>> THEN PowerOnConfig
    ELSE IF bytes[1] = 242 THEN [dev EXCEPT !.ctrl_hum = bytes[2]]
    ELSE IF bytes[1] = 244 THEN [dev EXCEPT !.ctrl_meas = bytes[2]]
    ELSE IF bytes[1] = 245 THEN [dev EXCEPT !.config = bytes[2]]
    ELSE dev

(* the registers after the events of log from the i-th on, a failed write  *)
(* changing nothing                                                        *)
RECURSIVE DeviceFrom(_, _, _)
DeviceFrom(dev, log, i) ==
    IF i > Len(log) THEN dev
    ELSE IF log[i].kind = "write" /\ log[i].err = NoErr
    THEN DeviceFrom(DeviceWrite(dev, log[i].bytes), log, i + 1)
    ELSE DeviceFrom(dev, log, i + 1)

DeviceAfter(dev, log) == DeviceFrom(dev, log, 1)

(* ---------------- Driver ------------------------------------------------ *)

(* read_calibration_data going on to the third read after the second      *)
(* failed                                                                  *)
read_calibration_data_continuing(env, n, address) ==
    LET r1 == write_read(env, n, address, 136, 24)
        r2 == write_read(env, n + 1, address, 161, 1)
        r3 == write_read(env, n + 2, address, 225, 6)
    IN  IF ~r1.ok THEN [log |-> <<r1.ev>>, res |-> Err(env.err)]
        ELSE IF ~r2.ok \/ ~r3.ok
        THEN [log |-> <<r1.ev, r2.ev, r3.ev>>, res |-> Err(env.err)]
        ELSE [ log |-> <<r1.ev, r2.ev, r3.ev>>,
               res |-> Ok(CalibrationFrom(r1.data, r2.data \o r3.data)) ]

(* read_calibration_data fetching 0x88..0xA1 in one read and 0xE1..0xE6    *)
(* in another                                                              *)
read_calibration_data_two_reads(env, n, address) ==
    LET r1 == write_read(env, n, address, 136, 26)
        r3 == write_read(env, n + 1, address, 225, 6)
    IN  IF ~r1.ok THEN [log |-> <<r1.ev>>, res |-> Err(env.err)]
        ELSE IF ~r3.ok THEN [log |-> <<r1.ev, r3.ev>>, res |-> Err(env.err)]
        ELSE [ log |-> <<r1.ev, r3.ev>>,
               res |-> Ok(CalibrationFrom(SubSeq(r1.data, 1, 24),
                                          <<r1.data[26]>> \o r3.data)) ]

(* read_calibration_data addressing the default 0x76 whatever the address  *)
(* it is given                                                             *)
read_calibration_data_default_address(env, n, address) ==
    LET r1 == write_read(env, n, 118, 136, 24)
        r2 == write_read(env, n + 1, 118, 161, 1)
        r3 == write_read(env, n + 2, 118, 225, 6)
    IN  IF ~r1.ok THEN [log |-> <<r1.ev>>, res |-> Err(env.err)]
        ELSE IF ~r2.ok THEN [log |-> <<r1.ev, r2.ev>>, res |-> Err(env.err)]
        ELSE IF ~r3.ok THEN [log |-> <<r1.ev, r2.ev, r3.ev>>, res |-> Err(env.err)]
        ELSE [ log |-> <<r1.ev, r2.ev, r3.ev>>,
               res |-> Ok(CalibrationFrom(r1.data, r2.data \o r3.data)) ]

(* Driver::read_calibration_data, its first transaction being number n of  *)
(* the call: [log, res]                                                    *)
read_calibration_data(env, n, address) ==
    LET r1 == write_read(env, n, address, 136, 24)
        r2 == write_read(env, n + 1, address, 161, 1)
        r3 == write_read(env, n + 2, address, 225, 6)
    IN  IF ~r1.ok THEN [log |-> <<r1.ev>>, res |-> Err(env.err)]
        ELSE IF ~r2.ok THEN [log |-> <<r1.ev, r2.ev>>, res |-> Err(env.err)]
        ELSE IF ~r3.ok THEN [log |-> <<r1.ev, r2.ev, r3.ev>>, res |-> Err(env.err)]
        ELSE [ log |-> <<r1.ev, r2.ev, r3.ev>>,
               res |-> Ok(CalibrationFrom(r1.data, r2.data \o r3.data)) ]

(* new_configure returning right after its last write *)
new_configure_no_settle(env, addr, calib, log) ==
    LET w1 == write(env, 5, addr, <<242, 1>>)
        w2 == write(env, 6, addr, <<244, 39>>)
        w3 == write(env, 7, addr, <<245, 0>>)
    IN  IF ~w1.ok THEN [log |-> log \o <<w1.ev>>, res |-> Err(Raw(env.err))]
        ELSE IF ~w2.ok
        THEN [ log |-> log \o <<w1.ev, Delay(10), w2.ev>>,
               res |-> Err(Raw(env.err)) ]
        ELSE IF ~w3.ok
        THEN [ log |-> log \o <<w1.ev, Delay(10), w2.ev, Delay(10), w3.ev>>,
               res |-> Err(Raw(env.err)) ]
        ELSE [ log |-> log \o <<w1.ev, Delay(10), w2.ev, Delay(10), w3.ev>>,
               res |-> Ok([address |-> addr, calib |-> calib]) ]

(* new_configure returning the Driver whether or not its last write       *)
(* succeeded                                                               *)
new_configure_ignoring_last(env, addr, calib, log) ==
    LET w1 == write(env, 5, addr, <<242, 1>>)
        w2 == write(env, 6, addr, <<244, 39>>)
        w3 == write(env, 7, addr, <<245, 0>>)
    IN  IF ~w1.ok THEN [log |-> log \o <<w1.ev>>, res |-> Err(Raw(env.err))]
        ELSE IF ~w2.ok
        THEN [ log |-> log \o <<w1.ev, Delay(10), w2.ev>>,
               res |-> Err(Raw(env.err)) ]
        ELSE [ log |-> log \o <<w1.ev, Delay(10), w2.ev, Delay(10), w3.ev,
                                Delay(10)>>,
               res |-> Ok([address |-> addr, calib |-> calib]) ]

(* the three configuration writes of Driver::new, transactions 5 to 7 *)
new_configure(env, addr, calib, log) ==
    LET w1 == write(env, 5, addr, <<242, 1>>)
        w2 == write(env, 6, addr, <<244, 39>>)
        w3 == write(env, 7, addr, <<245, 0>>)
    IN  IF ~w1.ok THEN [log |-> log \o <<w1.ev>>, res |-> Err(Raw(env.err))]
        ELSE IF ~w2.ok
        THEN [ log |-> log \o <<w1.ev, Delay(10), w2.ev>>,
               res |-> Err(Raw(env.err)) ]
        ELSE IF ~w3.ok
        THEN [ log |-> log \o <<w1.ev, Delay(10), w2.ev, Delay(10), w3.ev>>,
               res |-> Err(Raw(env.err)) ]
        ELSE [ log |-> log \o <<w1.ev, Delay(10), w2.ev, Delay(10), w3.ev,
                                Delay(10)>>,
               res |-> Ok([address |-> addr, calib |-> calib]) ]

(* im_update testing the whole status byte *)
im_update_any_bit(status) == status[1] # 0

(* the test of the status byte in Driver::new: status[0] & 0x01 != 0 *)
im_update(status) == BitAnd(status[1], 1) # 0

(* new loading the calibration before it tests the status byte *)
new_loading_first(env, address) ==
    LET addr == IF address = <<>> THEN 118 ELSE address[1]
        st == write_read(env, 1, addr, 243, 1)
        log1 == <<Delay(3), st.ev>>
        cal == read_calibration_data(env, 2, addr)
    IN  IF ~st.ok THEN [log |-> log1, res |-> Err(Raw(env.err))]
        ELSE IF ~cal.res.ok
        THEN [log |-> log1 \o cal.log, res |-> Err(Raw(cal.res.err))]
        ELSE IF im_update(st.data)
        THEN [log |-> log1 \o cal.log, res |-> Err(ErrorInit)]
        ELSE new_configure(env, addr, cal.res.val, log1 \o cal.log)

(* new reading the status at once, waiting afterwards *)
new_waiting_late(env, address) ==
    LET addr == IF address = <<>> THEN 118 ELSE address[1]
        st == write_read(env, 1, addr, 243, 1)
        log1 == <<st.ev, Delay(3)>>
        cal == read_calibration_data(env, 2, addr)
    IN  IF ~st.ok THEN [log |-> <<st.ev>>, res |-> Err(Raw(env.err))]
        ELSE IF im_update(st.data) THEN [log |-> log1, res |-> Err(ErrorInit)]
        ELSE IF ~cal.res.ok
        THEN [log |-> log1 \o cal.log, res |-> Err(Raw(cal.res.err))]
        ELSE new_configure(env, addr, cal.res.val, log1 \o cal.log)

(* Driver::new(clock, bus, address), address <<>> for None and <<a>> for   *)
(* Some(a): [log, res], res the handle or the error                        *)
new(env, address) ==
    LET addr == IF address = <<>> THEN 118 ELSE address[1]
        st == write_read(env, 1, addr, 243, 1)
        log1 == <<Delay(3), st.ev>>
        cal == read_calibration_data(env, 2, addr)
    IN  IF ~st.ok THEN [log |-> log1, res |-> Err(Raw(env.err))]
        ELSE IF im_update(st.data) THEN [log |-> log1, res |-> Err(ErrorInit)]
        ELSE IF ~cal.res.ok
        THEN [log |-> log1 \o cal.log, res |-> Err(Raw(cal.res.err))]
        ELSE new_configure(env, addr, cal.res.val, log1 \o cal.log)

(* the codes (press, temp, hum) read_raw_data assembles from the eight     *)
(* bytes of a sample                                                       *)
(* raw_codes keeping the low nibble of the xlsb bytes, not the high one *)
raw_codes_low_nibble(data) ==
    << BitOr(BitOr(data[1] * 4096, data[2] * 16), data[3] % 16),
       BitOr(BitOr(data[4] * 4096, data[5] * 16), data[6] % 16),
       BitOr(data[7] * 256, data[8]) >>

raw_codes(data) ==
    << BitOr(BitOr(data[1] * 4096, data[2] * 16), data[3] \div 16),
       BitOr(BitOr(data[4] * 4096, data[5] * 16), data[6] \div 16),
       BitOr(data[7] * 256, data[8]) >>

(* read_raw_data reading on from wherever the device's register pointer    *)
(* stands, with no write phase that names 0xF7                             *)
read_raw_data_from_pointer(self, env) ==
    IF ~BusOk(env, 1)
    THEN [ log |-> << [ kind |-> "read", addr |-> self.address,
                        bytes |-> <<>>, len |-> 8, data |-> <<>>,
                        err |-> env.err ] >>,
           res |-> Err(env.err) ]
    ELSE [ log |-> << [ kind |-> "read", addr |-> self.address,
                        bytes |-> <<>>, len |-> 8,
                        data |-> [i \in 1..8 |->
                                    RegByte(env.img, env.pointer + i - 1)],
                        err |-> NoErr ] >>,
           res |-> Ok(raw_codes([i \in 1..8 |->
                                    RegByte(env.img, env.pointer + i - 1)])) ]

(* read_raw_data reading the status register before the sample *)
read_raw_data_polling(self, env) ==
    LET st == write_read(env, 1, self.address, 243, 1)
        r == write_read(env, 2, self.address, 247, 8)
    IN  IF ~st.ok THEN [log |-> <<st.ev>>, res |-> Err(env.err)]
        ELSE IF ~r.ok THEN [log |-> <<st.ev, r.ev>>, res |-> Err(env.err)]
        ELSE [log |-> <<st.ev, r.ev>>, res |-> Ok(raw_codes(r.data))]

(* Driver::read_raw_data: [log, res], res the codes (press, temp, hum) *)
read_raw_data(self, env) ==
    LET r == write_read(env, 1, self.address, 247, 8)
    IN  IF ~r.ok THEN [log |-> <<r.ev>>, res |-> Err(env.err)]
        ELSE [log |-> <<r.ev>>, res |-> Ok(raw_codes(r.data))]

(* the tuple Driver::read returns, and whether a build with overflow      *)
(* checks panics instead of returning it                                   *)
read_values(t, p, h) ==
    [ temperature |-> t.temperature,
      pressure |-> p.pressure,
      humidity |-> h.humidity,
      panics |-> t.ovf \/ p.ovf \/ p.fault \/ h.ovf ]

(* compensate_rest handing pressure and humidity a t_fine of zero in place *)
(* of the one just computed                                                *)
compensate_rest_stale(calib, adc_p, adc_h, t) ==
    read_values(t, compensate_pressure(calib, adc_p, I(0)),
                compensate_humidity(calib, adc_h, I(0)))

(* the pressure and the humidity of Driver::read, t being the outcome of   *)
(* compensate_temperature                                                  *)
compensate_rest(calib, adc_p, adc_h, t) ==
    read_values(t, compensate_pressure(calib, adc_p, t.t_fine),
                compensate_humidity(calib, adc_h, t.t_fine))

(* the compensation of Driver::read *)
compensate(calib, adc_p, adc_t, adc_h) ==
    compensate_rest(calib, adc_p, adc_h, compensate_temperature(calib, adc_t))

(* ---------------- what the bus is given to return ----------------------- *)

(* the two bytes of a 16-bit register pair holding x, low byte first *)
le16(x) == <<x % 256, (x \div 256) % 256>>

(* NVM contents: the coefficients of the data sheet's worked example, a    *)
(* blank device and a device reading all ones; e1 is 0xE1..0xE7.           *)
NvmExample ==
    [ tp |-> le16(27504) \o le16(26435) \o le16(-1000) \o le16(36477)
             \o le16(-10685) \o le16(3024) \o le16(2855) \o le16(140)
             \o le16(-7) \o le16(15500) \o le16(-14600) \o le16(6000),
      a1 |-> 75,
      e1 |-> <<106, 1, 0, 20, 36, 3, 30>> ]

NvmBlank == [tp |-> [i \in 1..24 |-> 0], a1 |-> 0, e1 |-> [i \in 1..7 |-> 0]]

NvmOnes == [tp |-> [i \in 1..24 |-> 255], a1 |-> 255, e1 |-> [i \in 1..7 |-> 255]]

Nvms == {NvmExample, NvmBlank, NvmOnes}

(* status bytes: bit 0 (im_update) clear and set, the other bits varying *)
StatusBytes == {0, 1, 254, 255}

(* samples: the worked example's codes, the data registers' reset value,   *)
(* and all ones                                                            *)
Bursts ==
    { <<101, 90, 192, 126, 237, 0, 117, 48>>,
      <<128, 0, 0, 128, 0, 0, 128, 0>>,
      [i \in 1..8 |-> 255] }

(* the address argument of new: None, Some(0x76), Some(0x77) *)
Addresses == {<<>>, <<118>>, <<119>>}

(* read dropping the calibration when the bus fails *)
read_forgetting(self, env) ==
    LET raw == read_raw_data(self, env)
    IN  IF ~raw.res.ok
        THEN [ log |-> raw.log, res |-> raw.res,
               self |-> [self EXCEPT !.calib =
                            CalibrationFrom(NvmBlank.tp, NvmBlank.e1)] ]
        ELSE [ log |-> raw.log,
               res |-> Ok(compensate(self.calib, raw.res.val[1],
                                     raw.res.val[2], raw.res.val[3])),
               self |-> self ]

(* Driver::read(&mut self, bus): [log, res, self], self the handle after   *)
(* the call                                                                *)
read(self, env) ==
    LET raw == read_raw_data(self, env)
    IN  IF ~raw.res.ok THEN [log |-> raw.log, res |-> raw.res, self |-> self]
        ELSE [ log |-> raw.log,
               res |-> Ok(compensate(self.calib, raw.res.val[1],
                                     raw.res.val[2], raw.res.val[3])),
               self |-> self ]

(* reset leaving dig_h6 as it was *)
reset_keeping_h6(self, env) ==
    LET w == write(env, 1, self.address, <<224, 182>>)
        cal == read_calibration_data(env, 2, self.address)
    IN  IF ~w.ok THEN [log |-> <<w.ev>>, res |-> Err(env.err), self |-> self]
        ELSE IF ~cal.res.ok
        THEN [ log |-> <<w.ev, Delay(5)>> \o cal.log, res |-> cal.res,
               self |-> self ]
        ELSE [ log |-> <<w.ev, Delay(5)>> \o cal.log, res |-> Ok(<<>>),
               self |-> [self EXCEPT !.calib =
                            [cal.res.val EXCEPT !.dig_h6 = self.calib.dig_h6]] ]

(* reset storing the temperature and pressure coefficients as soon as      *)
(* their read succeeded                                                    *)
reset_partial(self, env) ==
    LET w == write(env, 1, self.address, <<224, 182>>)
        cal == read_calibration_data(env, 2, self.address)
        tp == LoadBytes(cal.log).tp
        part == CalibrationFrom(tp, <<0, 0, 0, 0, 0, 0, 0>>)
    IN  IF ~w.ok THEN [log |-> <<w.ev>>, res |-> Err(env.err), self |-> self]
        ELSE IF ~cal.res.ok
        THEN [ log |-> <<w.ev, Delay(5)>> \o cal.log, res |-> cal.res,
               self |-> IF Len(tp) = 24
                        THEN [self EXCEPT !.calib =
                                [part EXCEPT !.dig_h1 = self.calib.dig_h1,
                                             !.dig_h2 = self.calib.dig_h2,
                                             !.dig_h3 = self.calib.dig_h3,
                                             !.dig_h4 = self.calib.dig_h4,
                                             !.dig_h5 = self.calib.dig_h5,
                                             !.dig_h6 = self.calib.dig_h6]]
                        ELSE self ]
        ELSE [ log |-> <<w.ev, Delay(5)>> \o cal.log, res |-> Ok(<<>>),
               self |-> [self EXCEPT !.calib = cal.res.val] ]

(* reset reloading the calibration before it waits *)
reset_reloading_at_once(self, env) ==
    LET w == write(env, 1, self.address, <<224, 182>>)
        cal == read_calibration_data(env, 2, self.address)
    IN  IF ~w.ok THEN [log |-> <<w.ev>>, res |-> Err(env.err), self |-> self]
        ELSE IF ~cal.res.ok
        THEN [ log |-> <<w.ev>> \o cal.log \o <<Delay(5)>>, res |-> cal.res,
               self |-> self ]
        ELSE [ log |-> <<w.ev>> \o cal.log \o <<Delay(5)>>, res |-> Ok(<<>>),
               self |-> [self EXCEPT !.calib = cal.res.val] ]

(* reset writing the configuration of new again after the reload *)
reset_reconfiguring(self, env) ==
    LET w == write(env, 1, self.address, <<224, 182>>)
        cal == read_calibration_data(env, 2, self.address)
        cfg == new_configure(env, self.address, cal.res.val,
                             <<w.ev, Delay(5)>> \o cal.log)
    IN  IF ~w.ok THEN [log |-> <<w.ev>>, res |-> Err(env.err), self |-> self]
        ELSE IF ~cal.res.ok
        THEN [ log |-> <<w.ev, Delay(5)>> \o cal.log, res |-> cal.res,
               self |-> self ]
        ELSE [ log |-> cfg.log, res |-> Ok(<<>>),
               self |-> [self EXCEPT !.calib = cal.res.val] ]

(* Driver::reset(&mut self, bus): [log, res, self] *)
reset(self, env) ==
    LET w == write(env, 1, self.address, <<224, 182>>)
        cal == read_calibration_data(env, 2, self.address)
    IN  IF ~w.ok THEN [log |-> <<w.ev>>, res |-> Err(env.err), self |-> self]
        ELSE IF ~cal.res.ok
        THEN [ log |-> <<w.ev, Delay(5)>> \o cal.log, res |-> cal.res,
               self |-> self ]
        ELSE [ log |-> <<w.ev, Delay(5)>> \o cal.log, res |-> Ok(<<>>),
               self |-> [self EXCEPT !.calib = cal.res.val] ]

(* ---------------- the state machine ------------------------------------- *)

VARIABLES
    handle,     \* <<>>: the caller holds no Driver; <<[address, calib]>>: it holds this one
    call,       \* the last call: [op, arg, before, log, res, prior]
    lastLoad,   \* the bytes of the latest calibration load whose reads all succeeded
    device,     \* the device's configuration registers: [ctrl_hum, ctrl_meas, config]
    pointer     \* the register the device's register pointer stands at

vars == <<handle, call, lastLoad, device, pointer>>

(* ---------------- the calls the caller makes --------------------------- *)

(* the largest transaction number of a call at which a failure is injected *)
MaxTx == 7

NoFailure == [failAt |-> 0, err |-> NoErr]

(* What can go wrong on the bus during a call that issues at most n        *)
(* transactions: nothing, or transaction k fails with error e.             *)
Failures(n) ==
    {NoFailure}
    \cup {[failAt |-> k, err |-> e] :
             k \in {j \in 1..MaxTx : j <= n}, e \in BusErrors}

Env(nvm, status, burst, f) ==
    [ img |-> [ tp |-> nvm.tp, a1 |-> nvm.a1, e1 |-> nvm.e1,
                status |-> status, burst |-> burst ],
      failAt |-> f.failAt, err |-> f.err, pointer |-> pointer ]


(* what is kept of the call before the last one *)
NoPrior == [op |-> "none", ok |-> TRUE]
Prior == [op |-> call.op, ok |-> call.res.ok]

Init ==
    /\ handle = <<>>
    /\ call = [ op |-> "none", arg |-> <<>>, before |-> <<>>, log |-> <<>>,
                res |-> Ok(<<>>), prior |-> NoPrior ]
    /\ lastLoad = [tp |-> <<>>, h |-> <<>>]
    /\ device = PowerOnConfig
    /\ pointer = 0

(* the caller holds what new returned: the Driver, or none after an error *)
AfterNew(address, r) ==
    /\ handle' = IF r.res.ok THEN <<r.res.val>> ELSE <<>>
    /\ call' = [ op |-> "new", arg |-> address, before |-> handle,
                 log |-> r.log,
                 res |-> IF r.res.ok THEN Ok(<<>>) ELSE r.res,
                 prior |-> Prior ]
    /\ lastLoad' = IF r.res.ok THEN LoadBytes(r.log) ELSE lastLoad
    /\ device' = DeviceAfter(device, r.log)
    /\ pointer' = PointerAfter(pointer, r.log)

(* the caller's Driver is the one the method left behind *)
AfterMethod(op, r) ==
    /\ handle' = <<r.self>>
    /\ call' = [ op |-> op, arg |-> <<>>, before |-> handle, log |-> r.log,
                 res |-> r.res, prior |-> Prior ]
    /\ lastLoad' = IF op = "reset" /\ r.res.ok THEN LoadBytes(r.log)
                   ELSE lastLoad
    /\ device' = DeviceAfter(device, r.log)
    /\ pointer' = PointerAfter(pointer, r.log)

(* the caller constructs a Driver *)
Construct ==
    /\ handle = <<>>
    /\ \E address \in Addresses, nvm \in Nvms, status \in StatusBytes,
          f \in Failures(7) :
          AfterNew(address, new(Env(nvm, status, <<>>, f), address))

Read ==
    /\ handle # <<>>
    /\ \E burst \in Bursts, f \in Failures(1) :
          AfterMethod("read", read(handle[1], Env(NvmBlank, 0, burst, f)))

Reset ==
    /\ handle # <<>>
    /\ \E nvm \in Nvms, f \in Failures(4) :
          AfterMethod("reset", reset(handle[1], Env(nvm, 0, <<>>, f)))

Next == Construct \/ Read \/ Reset

Spec == Init /\ [][Next]_vars

(* What else the caller may do on the bus between two calls on its Driver: *)
(* read the chip id register 0xD0 of the same device, or talk to another   *)
(* device, here one at 0x3C.                                               *)
ForeignTraffic(address) ==
    { [ kind |-> "write_read", addr |-> address, bytes |-> <<208>>,
        len |-> 1, data |-> <<96>>, err |-> NoErr ],
      [ kind |-> "write", addr |-> 60, bytes |-> <<0, 175>>, len |-> 0,
        data |-> <<>>, err |-> NoErr ] }

OtherTraffic ==
    /\ handle # <<>>
    /\ call.op # "other"
    /\ \E e \in ForeignTraffic(handle[1].address) :
          /\ call' = [ op |-> "other", arg |-> <<>>, before |-> handle,
                       log |-> <<e>>, res |-> Ok(<<>>), prior |-> Prior ]
          /\ pointer' = PointerAfter(pointer, <<e>>)
    /\ UNCHANGED <<handle, lastLoad, device>>

NextTraffic == Next \/ OtherTraffic

SpecTraffic == Init /\ [][NextTraffic]_vars

(* ---------------- the compensation functions on their own --------------- *)

(* the worked example's device with P2 and P3 chosen so that the pressure  *)
(* denominator crosses zero inside the range of t_fine                     *)
NvmCrossing ==
    [ NvmExample EXCEPT
        !.tp = SubSeq(NvmExample.tp, 1, 8) \o le16(-32768) \o le16(0)
               \o SubSeq(NvmExample.tp, 13, 24) ]

(* P1 at the top of u16, P2 and P3 at the top of i16 *)
NvmExtreme ==
    [ NvmExample EXCEPT
        !.tp = SubSeq(NvmExample.tp, 1, 6) \o le16(65535) \o le16(32767)
               \o le16(32767) \o SubSeq(NvmExample.tp, 13, 24) ]

CompNvms == Nvms \cup {NvmCrossing, NvmExtreme}

(* the number of equal steps the range of a raw code is cut into *)
AdcSteps == 4

(* raw codes over the whole range of the 20-bit and the 16-bit conversion, *)
(* and the pressure code of the data sheet's worked example                *)
AdcP == {(1048575 * k) \div AdcSteps : k \in 0..AdcSteps} \cup {415148}
AdcH == {(65535 * k) \div AdcSteps : k \in 0..AdcSteps}

(* t_fine: the ends of what compensate_temperature can return, zero, the   *)
(* worked example's value, and the value at which NvmCrossing's pressure   *)
(* denominator is zero                                                     *)
TFines == {-1179648, 0, 128422, 1176576, 1179646}

(* a Driver holding some calibration, and the arguments of the call to come *)
InitComp ==
    /\ \E nvm \in CompNvms :
          handle = << [ address |-> 118,
                        calib |-> CalibrationFrom(nvm.tp,
                                     <<nvm.a1>> \o SubSeq(nvm.e1, 1, 6)) ] >>
    /\ \E adc_p \in AdcP, adc_h \in AdcH, t_fine \in TFines :
          call = [ op |-> "none", arg |-> <<adc_p, adc_h, t_fine>>,
                   before |-> <<>>, log |-> <<>>, res |-> Ok(<<>>),
                   prior |-> NoPrior ]
    /\ lastLoad = [tp |-> <<>>, h |-> <<>>]
    /\ device = PowerOnConfig
    /\ pointer = 0

Returned(op, v) ==
    /\ call' = [call EXCEPT !.op = op, !.before = handle, !.res = Ok(v)]
    /\ UNCHANGED <<handle, lastLoad, device, pointer>>

CompensatePressure ==
    /\ call.op = "none"
    /\ Returned("compensate_pressure",
                compensate_pressure(handle[1].calib, call.arg[1],
                                    I(call.arg[3])))

CompensateHumidity ==
    /\ call.op = "none"
    /\ Returned("compensate_humidity",
                compensate_humidity(handle[1].calib, call.arg[2],
                                    I(call.arg[3])))

(* the outcome v of the pure function op applied to arg *)
Applied(op, arg, v) ==
    /\ call' = [ call EXCEPT !.op = op, !.arg = arg, !.before = handle,
                             !.res = Ok(v) ]
    /\ UNCHANGED <<handle, lastLoad, device, pointer>>

(* raw temperature codes over the whole range of the 20-bit conversion,    *)
(* and the code of the data sheet's worked example                         *)
AdcT == {(1048575 * k) \div AdcSteps : k \in 0..AdcSteps} \cup {519888}

CompensateTemperature ==
    /\ call.op = "none"
    /\ \E adc_t \in AdcT :
          Applied("compensate_temperature", <<adc_t>>,
                  compensate_temperature(handle[1].calib, adc_t))

(* n bytes, the first being a, each next one s more than the one before *)
Block(n, a, s) == [i \in 1..n |-> (a + s * (i - 1)) % 256]

(* first bytes and steps: blocks of equal bytes 0x00, 0x7F, 0x80 and 0xFF, *)
(* rising blocks, and blocks whose bytes change in both nibbles            *)
BlockStarts == {0, 127, 128, 255}
BlockSteps == {0, 1, 37, 129}

CalibrationParse ==
    /\ call.op = "none"
    /\ \E a \in BlockStarts, s \in BlockSteps,
          b \in BlockStarts, t \in BlockSteps :
          Applied("Calibration::from", <<Block(24, a, s), Block(7, b, t)>>,
                  CalibrationFrom(Block(24, a, s), Block(7, b, t)))

RawSample ==
    /\ call.op = "none"
    /\ \E a \in BlockStarts, s \in BlockSteps :
          Applied("read_raw_data", <<Block(8, a, s)>>,
                  raw_codes(Block(8, a, s)))

NextComp ==
    \/ CompensateTemperature
    \/ CompensatePressure
    \/ CompensateHumidity
    \/ CalibrationParse
    \/ RawSample

SpecComp == InitComp /\ [][NextComp]_vars

(* ---------------- properties -------------------------------------------- *)

CalReads(log) == SelectSeq(log, IsCalRead)

IsWrite(e) == e.kind = "write"

(* C1: Driver::new fails with Error::Init exactly when its first bus       *)
(* transaction, the read of status register 0xF3, returned a byte whose    *)
(* bit 0 is set, whatever the other seven bits of that byte are.           *)
C1_InitIffStatusBit0 ==
    call.op = "new" =>
        LET st == call.log[2]
        IN  /\ st.kind = "write_read" /\ st.bytes = <<243>> /\ st.len = 1
            /\ (~call.res.ok /\ call.res.err = ErrorInit)
               <=> (st.err = NoErr /\ st.data[1] % 2 = 1)

C1_Witness ==
    /\ call.op = "new" /\ ~call.res.ok /\ call.res.err = ErrorInit
    /\ call.log[2].data = <<255>>

(* C2: after a successful reset the stored calibration is Calibration::from *)
(* of the 24 + 1 + 6 bytes the device returned, after the soft-reset       *)
(* command, to the reads of 0x88, 0xA1 and 0xE1; no coefficient is left    *)
(* over from the calibration held before.                                  *)
C2_ResetReloadsCalibration ==
    (call.op = "reset" /\ call.res.ok) =>
        LET cr == CalReads(call.log)
            b == LoadBytes(call.log)
        IN  /\ call.log[1].kind = "write" /\ call.log[1].bytes = <<224, 182>>
            /\ Len(cr) = 3
            /\ cr[1].bytes = <<136>> /\ Len(cr[1].data) = 24
            /\ cr[2].bytes = <<161>> /\ Len(cr[2].data) = 1
            /\ cr[3].bytes = <<225>> /\ Len(cr[3].data) = 6
            /\ handle[1].calib = CalibrationFrom(b.tp, b.h)

C2_Witness ==
    /\ call.op = "reset" /\ call.res.ok
    /\ handle[1].calib.dig_t1 # call.before[1].calib.dig_t1
    /\ handle[1].calib.dig_h6 # call.before[1].calib.dig_h6

(* C3: whenever a Driver exists its calibration is the parse of the bytes  *)
(* of one calibration load, the latest whose reads all succeeded, and a    *)
(* reset that fails leaves the Driver as it was before the call.           *)
C3_CalibrationIsOneLoad ==
    /\ handle # <<>> =>
          /\ Len(lastLoad.tp) = 24 /\ Len(lastLoad.h) = 7
          /\ handle[1].calib = CalibrationFrom(lastLoad.tp, lastLoad.h)
    /\ (call.op = "reset" /\ ~call.res.ok) => handle = call.before

C3_Witness ==
    /\ call.op = "reset" /\ ~call.res.ok
    /\ Len(CalReads(call.log)) = 3
    /\ CalReads(call.log)[1].data # lastLoad.tp

(* C4: a read, failed or not, leaves the Driver as it was, and a read on a *)
(* working bus succeeds with the compensation of the sample under the      *)
(* calibration loaded last, whether or not a failed read came before it.   *)
C4_ReadKeepsHandle ==
    call.op = "read" =>
        /\ handle = call.before
        /\ call.log[1].err = NoErr =>
              LET c == raw_codes(call.log[1].data)
              IN  /\ call.res.ok
                  /\ call.res.val =
                        compensate(CalibrationFrom(lastLoad.tp, lastLoad.h),
                                   c[1], c[2], c[3])

C4_Witness ==
    /\ call.op = "read" /\ call.res.ok
    /\ call.prior = [op |-> "read", ok |-> FALSE]

(* C5: in new, read and reset a failed bus transaction is the last thing   *)
(* the call does, and the call returns that transaction's error, new as    *)
(* Error::Raw and never as Error::Init.                                    *)
C5_FailureEndsTheCall ==
    call.op \in {"new", "read", "reset"} =>
        \A i \in 1..Len(call.log) :
            (IsBus(call.log[i]) /\ call.log[i].err # NoErr) =>
                /\ i = Len(call.log)
                /\ ~call.res.ok
                /\ call.res.err = IF call.op = "new"
                                  THEN Raw(call.log[i].err)
                                  ELSE call.log[i].err

C5_Witness ==
    /\ call.op = "new" /\ ~call.res.ok /\ call.res.err = Raw("Nack")
    /\ Len(BusEvents(call.log)) = 3

(* C6: compensate_pressure returns 0.0 without dividing when var1 is zero  *)
(* after step 3, and divides otherwise, so it never divides by zero.       *)
C6_ZeroDenominatorGuard ==
    call.op = "compensate_pressure" =>
        LET v == call.res.val
            den == pressure_terms(handle[1].calib, I(call.arg[3])).var1
        IN  /\ v.denominator = den
            /\ den = BZero =>
                  v.pressure.num = BZero /\ ~v.divided /\ ~v.fault
            /\ den # BZero => v.divided

C6_Witness ==
    /\ call.op = "compensate_pressure"
    /\ call.res.val.denominator = BZero
    /\ handle[1].calib.dig_p1 # 0

(* C7: compensate_humidity clamps var5 to [0, 419430400] right before the  *)
(* conversion, and the humidity it returns lies in [0, 100].               *)
C7_HumidityClamped ==
    call.op = "compensate_humidity" =>
        LET v == call.res.val
        IN  /\ BLe(BZero, v.acc) /\ BLe(v.acc, HumidityMax)
            /\ v.acc = IF BLt(v.var5, BZero) THEN BZero
                       ELSE IF BLt(HumidityMax, v.var5) THEN HumidityMax
                       ELSE v.var5
            /\ v.humidity = F(BDivTrunc(BShr(v.acc, 12), I(1024)), 1)
            /\ BLe(BZero, v.humidity.num) /\ BLe(v.humidity.num, I(100))

C7_Witness ==
    /\ call.op = "compensate_humidity"
    /\ BLt(HumidityMax, call.res.val.var5)

(* C8 as stated: a successful new or reset loads the calibration with      *)
(* exactly two bus reads.                                                  *)
C8_TwoCalibrationReads ==
    (call.op \in {"new", "reset"} /\ call.res.ok) =>
        Len(CalReads(call.log)) = 2

(* C8: a successful new or reset loads the calibration with exactly three  *)
(* bus reads: 24 bytes from 0x88, 1 byte from 0xA1, 6 bytes from 0xE1.     *)
C8_ThreeCalibrationReads ==
    (call.op \in {"new", "reset"} /\ call.res.ok) =>
        LET cr == CalReads(call.log)
        IN  /\ Len(cr) = 3
            /\ <<cr[1].bytes, cr[1].len>> = <<<<136>>, 24>>
            /\ <<cr[2].bytes, cr[2].len>> = <<<<161>>, 1>>
            /\ <<cr[3].bytes, cr[3].len>> = <<<<225>>, 6>>

C8_Witness ==
    /\ call.op = "new" /\ call.res.ok
    /\ Len(CalReads(call.log)) = 3

(* C9: a successful new writes [0xF2, 0x01], [0xF4, 0x27], [0xF5, 0x00] in *)
(* this order and nothing else, each write after every read of the call    *)
(* and each followed at once by a delay of 10 ms.                          *)
C9_ConfigurationWrites ==
    (call.op = "new" /\ call.res.ok) =>
        LET log == call.log
            ws == SelectSeq(log, IsWrite)
            W == {i \in 1..Len(log) : log[i].kind = "write"}
            R == {i \in 1..Len(log) : log[i].kind = "write_read"}
        IN  /\ Len(ws) = 3
            /\ ws[1].bytes = <<242, 1>>
            /\ ws[2].bytes = <<244, 39>>
            /\ ws[3].bytes = <<245, 0>>
            /\ Len(CalReads(log)) = 3
            /\ \A i \in W, j \in R : j < i
            /\ \A i \in W :
                  /\ i < Len(log)
                  /\ log[i + 1].kind = "delay" /\ log[i + 1].ms = 10

C9_Witness ==
    /\ call.op = "new" /\ call.res.ok /\ call.arg = <<119>>
    /\ Len(SelectSeq(call.log, IsWrite)) = 3

(* C10: a read issues exactly one bus transaction, a write of 0xF7         *)
(* followed by a read of 8 bytes, and waits neither before nor after it.   *)
C10_ReadIsOneBurst ==
    call.op = "read" =>
        /\ Len(call.log) = 1
        /\ call.log[1].kind = "write_read"
        /\ call.log[1].addr = call.before[1].address
        /\ call.log[1].bytes = <<247>>
        /\ call.log[1].len = 8

C10_Witness ==
    /\ call.op = "read" /\ call.res.ok
    /\ call.log[1].data = <<101, 90, 192, 126, 237, 0, 117, 48>>

(* C11: reset writes [0xE0, 0xB6] first, waits 5 ms next and reads the     *)
(* calibration only after both; after a failed write it does neither.      *)
C11_ResetOrder ==
    call.op = "reset" =>
        LET log == call.log
        IN  /\ log[1].kind = "write" /\ log[1].bytes = <<224, 182>>
            /\ log[1].err # NoErr => Len(log) = 1
            /\ log[1].err = NoErr =>
                  /\ Len(log) >= 3
                  /\ log[2].kind = "delay" /\ log[2].ms = 5
                  /\ \A i \in 3..Len(log) : IsCalRead(log[i])
            /\ \A i \in 1..Len(log) :
                  (log[i].kind = "write_read") => i >= 3

C11_Witness ==
    /\ call.op = "reset" /\ call.res.ok
    /\ Len(call.log) = 5

(* a write to ctrl_hum (0xF2), ctrl_meas (0xF4) or config (0xF5) *)
IsConfigWrite(e) == e.kind = "write" /\ e.bytes[1] \in {242, 244, 245}

(* C12: no read and no reset of a Driver writes 0xF2, 0xF4 or 0xF5; the    *)
(* soft reset of a reset puts the three registers at their power-on value  *)
(* and every later read and reset leaves them there.                       *)
C12_ResetLeavesDefaults ==
    [][ handle # <<>> =>
          /\ SelectSeq(call'.log, IsConfigWrite) = <<>>
          /\ device = PowerOnConfig => device' = PowerOnConfig
          /\ (call'.op = "reset" /\ call'.log[1].err = NoErr) =>
                device' = PowerOnConfig ]_vars

C12_Witness ==
    /\ call.op = "read" /\ call.res.ok
    /\ call.prior = [op |-> "reset", ok |-> TRUE]
    /\ device = PowerOnConfig

(* C13: when the status read of new returns a byte with bit 0 set, that    *)
(* read is the only bus transaction of the call: no calibration read and   *)
(* no write follows.                                                       *)
C13_BusyDeviceIsLeftAlone ==
    (call.op = "new" /\ call.log[2].err = NoErr
        /\ call.log[2].data[1] % 2 = 1) =>
        /\ Len(BusEvents(call.log)) = 1
        /\ BusEvents(call.log)[1].bytes = <<243>>
        /\ CalReads(call.log) = <<>>
        /\ SelectSeq(call.log, IsWrite) = <<>>

C13_Witness ==
    /\ call.op = "new" /\ call.log[2].data = <<1>>
    /\ call.res = Err(ErrorInit)

(* C14: new returns a Driver only after its seven bus transactions, the    *)
(* status read, the three calibration reads and the three writes, all      *)
(* succeeded with bit 0 of the status clear; otherwise it returns an error *)
(* and the caller holds no Driver.                                         *)
C14_ConstructAllOrNothing ==
    call.op = "new" =>
        LET bus == BusEvents(call.log)
        IN  /\ call.res.ok <=> handle # <<>>
            /\ call.res.ok <=>
                  /\ Len(bus) = 7
                  /\ \A i \in 1..7 : bus[i].err = NoErr
                  /\ bus[1].bytes = <<243>> /\ bus[1].data[1] % 2 = 0
                  /\ \A i \in 2..4 : IsCalRead(bus[i])
                  /\ \A i \in 5..7 : IsConfigWrite(bus[i])

C14_Witness ==
    /\ call.op = "new" /\ ~call.res.ok /\ handle = <<>>
    /\ Len(BusEvents(call.log)) = 7

(* C20: new waits 3 ms, which is at least 2 ms, before its first bus       *)
(* transaction, the read of the status register 0xF3.                      *)
C20_PowerUpDelayFirst ==
    call.op = "new" =>
        /\ call.log[1].kind = "delay" /\ call.log[1].ms >= 2
        /\ call.log[2].kind = "write_read" /\ call.log[2].bytes = <<243>>
        /\ \A i \in 1..Len(call.log) : IsBus(call.log[i]) => i >= 2

C20_Witness ==
    /\ call.op = "new" /\ Len(call.log) = 2
    /\ call.log[2].err = "ArbitrationLoss"

(* the values val are those of the codes c under calib, t being the        *)
(* outcome of compensate_temperature for the temperature code of c         *)
SameSample(calib, c, t, val) ==
    /\ val.temperature = t.temperature
    /\ val.pressure = compensate_pressure(calib, c[1], t.t_fine).pressure
    /\ val.humidity = compensate_humidity(calib, c[3], t.t_fine).humidity

(* C15: the values of a successful read are the temperature of the burst's *)
(* temperature code and the pressure and humidity compensated with the     *)
(* t_fine of that same code; the Driver holds an address and a calibration *)
(* and nothing else, and the read leaves it as it was.                     *)
C15_ReadUsesItsOwnTFine ==
    (call.op = "read" /\ call.res.ok) =>
        /\ SameSample(handle[1].calib, raw_codes(call.log[1].data),
                      compensate_temperature(handle[1].calib,
                                             raw_codes(call.log[1].data)[2]),
                      call.res.val)
        /\ DOMAIN handle[1] = {"address", "calib"}
        /\ handle = call.before

C15_Witness ==
    /\ call.op = "read" /\ call.res.ok
    /\ call.prior = [op |-> "read", ok |-> TRUE]
    /\ call.res.val.temperature # F(I(0), 100)

(* the unsigned and the signed 16-bit value of bytes i and i + 1 of b, low *)
(* byte first                                                              *)
Unsigned16(b, i) == b[i] + 256 * b[i + 1]
Signed16(b, i) ==
    IF b[i + 1] >= 128 THEN Unsigned16(b, i) - 65536 ELSE Unsigned16(b, i)

(* C16: Calibration::from yields T1 and P1 as the unsigned and T2, T3,     *)
(* P2..P9 as the signed little-endian value of their byte pair of the      *)
(* 24-byte block, in the order T1, T2, T3, P1..P9; of the 7-byte block,    *)
(* counted from 0, H1 is byte 0, H2 the signed pair of bytes 1 and 2, H3   *)
(* byte 3, H4 byte 4 times 16 plus the low nibble of byte 5, and H5 byte 6 *)
(* times 16 plus the high nibble of byte 5.                                *)
C16_CalibrationLayout ==
    call.op = "Calibration::from" =>
        LET tp == call.arg[1]
            h == call.arg[2]
            c == call.res.val
        IN  /\ c.dig_t1 = Unsigned16(tp, 1) /\ c.dig_t2 = Signed16(tp, 3)
            /\ c.dig_t3 = Signed16(tp, 5) /\ c.dig_p1 = Unsigned16(tp, 7)
            /\ c.dig_p2 = Signed16(tp, 9) /\ c.dig_p3 = Signed16(tp, 11)
            /\ c.dig_p4 = Signed16(tp, 13) /\ c.dig_p5 = Signed16(tp, 15)
            /\ c.dig_p6 = Signed16(tp, 17) /\ c.dig_p7 = Signed16(tp, 19)
            /\ c.dig_p8 = Signed16(tp, 21) /\ c.dig_p9 = Signed16(tp, 23)
            /\ c.dig_h1 = h[1] /\ c.dig_h2 = Signed16(h, 2)
            /\ c.dig_h3 = h[4]
            /\ c.dig_h4 = h[5] * 16 + (h[6] % 16)
            /\ c.dig_h5 = h[7] * 16 + (h[6] \div 16)

C16_Witness ==
    /\ call.op = "Calibration::from"
    /\ call.res.val.dig_t2 < 0 /\ call.res.val.dig_p1 >= 32768
    /\ call.arg[1][1] # call.arg[1][2]
    /\ call.arg[2][6] % 16 # 0 /\ call.arg[2][6] \div 16 # 0
    /\ call.arg[2][6] % 16 # call.arg[2][6] \div 16
    /\ call.arg[2][5] # call.arg[2][7]

(* C17: of the 8 burst bytes b0..b7 the raw pressure is b0*4096 + b1*16 +  *)
(* (b2 div 16), the raw temperature b3*4096 + b4*16 + (b5 div 16) and the  *)
(* raw humidity b6*256 + b7; pressure and temperature lie in 0..2^20 - 1   *)
(* and humidity in 0..65535.                                               *)
C17_RawCodes ==
    call.op = "read_raw_data" =>
        LET b == call.arg[1]
            c == call.res.val
        IN  /\ c[1] = b[1] * 4096 + b[2] * 16 + (b[3] \div 16)
            /\ c[2] = b[4] * 4096 + b[5] * 16 + (b[6] \div 16)
            /\ c[3] = b[7] * 256 + b[8]
            /\ c[1] \in 0..1048575 /\ c[2] \in 0..1048575
            /\ c[3] \in 0..65535

C17_Witness ==
    /\ call.op = "read_raw_data"
    /\ call.arg[1][3] % 16 # call.arg[1][3] \div 16
    /\ call.res.val[1] > 524288 /\ call.res.val[3] > 32768

(* C18: no `-` and no `*` of compensate_temperature leaves the i32 range,  *)
(* whatever the 20-bit code and the calibration words T1, T2, T3.          *)
C18_TemperatureFitsI32 ==
    call.op = "compensate_temperature" => ~call.res.val.ovf

(* the square of (adc_t >> 4) - T1 = 49151 is 2415820801, above 2^31 - 1 *)
C18_Overflow ==
    /\ call.op = "compensate_temperature" /\ call.res.val.ovf
    /\ call.arg = <<786431>>
    /\ handle[1].calib.dig_t1 = 0 /\ handle[1].calib.dig_t2 = 0
    /\ handle[1].calib.dig_t3 = 0

(* C19: no intermediate value of compensate_pressure leaves the i64 range, *)
(* whatever the 20-bit code, the calibration words P1..P9 and the t_fine   *)
(* that compensate_temperature can return.                                 *)
C19_PressureFitsI64 ==
    call.op = "compensate_pressure" => ~call.res.val.ovf

(* ((1 << 47) + var1) * P1 is 9226944574512337080, above 2^63 - 1 *)
C19_Overflow ==
    /\ call.op = "compensate_pressure" /\ call.res.val.ovf
    /\ call.arg[3] = 128422
    /\ handle[1].calib.dig_p1 = 65535 /\ handle[1].calib.dig_p2 = 32767
    /\ handle[1].calib.dig_p3 = 32767

(* every bus transaction of log is addressed to addr *)
AllAddressedTo(log, addr) ==
    \A i \in 1..Len(log) : IsBus(log[i]) => log[i].addr = addr

(* C21: every bus transaction of new goes to the address it was given, or  *)
(* to 0x76 when it was given none, and the Driver it returns holds that    *)
(* address; every bus transaction of read and reset goes to the Driver's   *)
(* address, which the call, failed or not, leaves as it was.               *)
C21_OneAddress ==
    /\ call.op = "new" =>
          /\ AllAddressedTo(call.log,
                            IF call.arg = <<>> THEN 118 ELSE call.arg[1])
          /\ handle # <<>> =>
                handle[1].address =
                    IF call.arg = <<>> THEN 118 ELSE call.arg[1]
    /\ call.op \in {"read", "reset"} =>
          /\ handle[1].address = call.before[1].address
          /\ AllAddressedTo(call.log, handle[1].address)

C21_Witness ==
    /\ call.op = "reset" /\ ~call.res.ok /\ Len(call.log) = 4
    /\ handle[1].address = 119
    /\ call.prior = [op |-> "read", ok |-> TRUE]

(* what the device holds in the len registers from reg on, over all the    *)
(* devices and samples the bus is given to return                          *)
RegisterContents(reg, len) ==
    IF reg = 243 THEN {<<s>> : s \in StatusBytes}
    ELSE IF reg = 136 THEN {nvm.tp : nvm \in Nvms}
    ELSE IF reg = 161 THEN {<<nvm.a1>> : nvm \in Nvms}
    ELSE IF reg = 225 THEN {SubSeq(nvm.e1, 1, len) : nvm \in Nvms}
    ELSE IF reg = 247 THEN Bursts
    ELSE {}

(* the values of a successful read are those of the bytes its burst got *)
ValuesOfBurst(calib, c, val) == val = compensate(calib, c[1], c[2], c[3])

(* C22: with other bus traffic between the calls, the Driver still holds   *)
(* an address and a calibration and nothing of the bus; every transaction  *)
(* of new, read and reset is a write or a write-then-read that names its   *)
(* register, so what a read gets is what the device holds from that        *)
(* register on, wherever the register pointer stood; and a read returns    *)
(* the values of the bytes its burst got.                                  *)
C22_TrafficChangesNothing ==
    call.op \in {"new", "read", "reset"} =>
        /\ handle # <<>> => DOMAIN handle[1] = {"address", "calib"}
        /\ \A i \in 1..Len(call.log) :
              /\ call.log[i].kind \in {"delay", "write", "write_read"}
              /\ call.log[i].kind = "write_read" =>
                    /\ Len(call.log[i].bytes) = 1
                    /\ call.log[i].err = NoErr =>
                          call.log[i].data \in
                              RegisterContents(call.log[i].bytes[1],
                                               call.log[i].len)
        /\ (call.op = "read" /\ call.res.ok) =>
              ValuesOfBurst(handle[1].calib, raw_codes(call.log[1].data),
                            call.res.val)

C22_Witness ==
    /\ call.op = "read" /\ call.res.ok
    /\ call.prior = [op |-> "other", ok |-> TRUE]
    /\ call.log[1].data = <<101, 90, 192, 126, 237, 0, 117, 48>>

(* the calibration of the data sheet's worked example *)
ExampleCalibration ==
    CalibrationFrom(NvmExample.tp, <<NvmExample.a1>> \o SubSeq(NvmExample.e1, 1, 6))

(* C23: with T1 = 27504, T2 = 26435, T3 = -1000 and the raw code 519888,   *)
(* compensate_temperature gives t_fine = 128422 and 2508 hundredths of a   *)
(* degree, 25.08 degrees Celsius.                                          *)
C23_ExampleTemperature ==
    ( /\ call.op = "compensate_temperature" /\ call.arg = <<519888>>
      /\ handle[1].calib.dig_t1 = 27504 /\ handle[1].calib.dig_t2 = 26435
      /\ handle[1].calib.dig_t3 = -1000 ) =>
        /\ call.res.val.t_fine = I(128422)
        /\ call.res.val.temperature = F(I(2508), 100)
        /\ ~call.res.val.ovf

C23_Witness ==
    /\ call.op = "compensate_temperature" /\ call.arg = <<519888>>
    /\ handle[1].calib = ExampleCalibration
    /\ call.res.val.t_fine = I(128422)

(* C24: with the example's P1..P9, the raw code 415148 and t_fine =        *)
(* 128422, compensate_pressure gives a value in 1/256 Pa that is within    *)
(* 1 Pa of 100653 Pa.                                                      *)
C24_ExamplePressure ==
    ( /\ call.op = "compensate_pressure"
      /\ call.arg[1] = 415148 /\ call.arg[3] = 128422
      /\ handle[1].calib = ExampleCalibration ) =>
        /\ call.res.val.pressure.den = 256
        /\ BLe(I(100652 * 256), call.res.val.pressure.num)
        /\ BLe(call.res.val.pressure.num, I(100654 * 256))
        /\ ~call.res.val.ovf /\ ~call.res.val.fault

C24_Witness ==
    /\ call.op = "compensate_pressure"
    /\ call.arg[1] = 415148 /\ call.arg[3] = 128422
    /\ handle[1].calib = ExampleCalibration
    /\ handle[1].calib.dig_p1 = 36477 /\ handle[1].calib.dig_p2 = -10685
    /\ handle[1].calib.dig_p3 = 3024 /\ handle[1].calib.dig_p4 = 2855
    /\ handle[1].calib.dig_p5 = 140 /\ handle[1].calib.dig_p6 = -7
    /\ handle[1].calib.dig_p7 = 15500 /\ handle[1].calib.dig_p8 = -14600
    /\ handle[1].calib.dig_p9 = 6000
    /\ call.res.val.pressure.num = I(25767233)

C30_H4H5NonNegative ==
    call.op = "Calibration::from" =>
        /\ call.res.val.dig_h4 \in 0..4095
        /\ call.res.val.dig_h5 \in 0..4095

C30_Witness ==
    /\ call.op = "Calibration::from"
    /\ call.arg[2][5] >= 128 /\ call.arg[2][7] >= 128
    /\ call.res.val.dig_h4 >= 2048 /\ call.res.val.dig_h5 >= 2048

(* ======================= AHT30 (aht30.rs) =============================== *)

(* a ^ b for naturals *)
RECURSIVE BitXor(_, _)
BitXor(a, b) ==
    IF a = 0 THEN b
    ELSE IF b = 0 THEN a
    ELSE (IF a % 2 # b % 2 THEN 1 ELSE 0) + 2 * BitXor(a \div 2, b \div 2)

(* Status::from decoding the mode as its comment documents it: CMD for bit *)
(* 6 alone                                                                 *)
StatusFrom_as_documented(data) ==
    [ cmp_interrupt |-> BitAnd(data, 4) # 0,
      calibration_enabled |-> BitAnd(data, 8) # 0,
      crc_ok |-> BitAnd(data, 16) # 0,
      mode |-> IF BitAnd(data, 64) # 0 THEN "CMD"
               ELSE IF BitAnd(data, 32) # 0 THEN "CYC"
               ELSE "NOR",
      is_busy |-> BitAnd(data, 128) # 0 ]

(* Status::from *)
StatusFrom(data) ==
    [ cmp_interrupt |-> BitAnd(data, 4) # 0,
      calibration_enabled |-> BitAnd(data, 8) # 0,
      crc_ok |-> BitAnd(data, 16) # 0,
      mode |-> IF BitAnd(data, 64) # 0 \/ BitAnd(data, 96) # 0 THEN "CMD"
               ELSE IF BitAnd(data, 32) # 0 THEN "CYC"
               ELSE "NOR",
      is_busy |-> BitAnd(data, 128) # 0 ]

(* one turn of the inner loop of calc_crc8, crc8_sum being a u8 *)
calc_crc8_bit(crc8_sum) ==
    IF BitAnd(crc8_sum, 128) # 0 THEN BitXor((crc8_sum * 2) % 256, 49)
    ELSE (crc8_sum * 2) % 256

(* k turns of the inner loop, each turn's value computed before the next *)
RECURSIVE calc_crc8_bits(_, _)
calc_crc8_bits(crc8_sum, k) ==
    IF k = 0 THEN crc8_sum
    ELSE CHOOSE r \in {calc_crc8_bits(c, k - 1) :
                          c \in {calc_crc8_bit(crc8_sum)}} : TRUE

(* the outer loop of calc_crc8 from byte i of data on *)
RECURSIVE calc_crc8_from(_, _, _)
calc_crc8_from(data, i, crc8_sum) ==
    IF i > Len(data) THEN crc8_sum
    ELSE CHOOSE r \in {calc_crc8_from(data, i + 1, c) :
                          c \in {calc_crc8_bits(BitXor(crc8_sum, data[i]), 8)}} :
             TRUE

(* Driver::calc_crc8 *)
calc_crc8(data) == calc_crc8_from(data, 1, 255)

ErrorCrc == [tag |-> "Crc", err |-> NoErr]
ErrorBusy == [tag |-> "Busy", err |-> NoErr]

(* bus.read(addr, buf) as transaction n of the call, buf being len bytes   *)
(* long; env.sample is what the device sends                               *)
i2c_read(env, n, addr, len) ==
    [ ok |-> BusOk(env, n),
      data |-> IF BusOk(env, n) THEN SubSeq(env.sample, 1, len)
               ELSE [i \in 1..len |-> 0],
      ev |-> [ kind |-> "read", addr |-> addr, bytes |-> <<>>, len |-> len,
               data |-> IF BusOk(env, n) THEN SubSeq(env.sample, 1, len)
                        ELSE <<>>,
               err |-> IF BusOk(env, n) THEN NoErr ELSE env.err ] ]

(* the pair (temperature, humidity) of the 7 bytes read, as exact          *)
(* fractions; the source rounds them to f32                                *)
aht30_values(data) ==
    [ humidity_raw |->
          BitOr(BitOr(data[2] * 4096, data[3] * 16), data[4] \div 16),
      temperature_raw |->
          BitOr(BitOr(BitAnd(data[4], 15) * 65536, data[5] * 256), data[6]),
      humidity |->
          [ num |-> 100 * BitOr(BitOr(data[2] * 4096, data[3] * 16),
                                data[4] \div 16),
            den |-> 1048576 ],
      temperature |->
          [ num |-> 200 * BitOr(BitOr(BitAnd(data[4], 15) * 65536,
                                      data[5] * 256), data[6])
                    - 50 * 1048576,
            den |-> 1048576 ] ]

(* what Driver::read of aht30.rs does once the 7 bytes are read, testing   *)
(* the busy bit before the checksum                                        *)
aht30_check_busy_first(data) ==
    IF StatusFrom(data[1]).is_busy THEN Err(ErrorBusy)
    ELSE IF data[7] # calc_crc8(SubSeq(data, 1, 6)) THEN Err(ErrorCrc)
    ELSE Ok(aht30_values(data))

(* what Driver::read of aht30.rs does once the 7 bytes are read *)
aht30_check(data) ==
    IF data[7] # calc_crc8(SubSeq(data, 1, 6)) THEN Err(ErrorCrc)
    ELSE IF StatusFrom(data[1]).is_busy THEN Err(ErrorBusy)
    ELSE Ok(aht30_values(data))

(* Driver::read of aht30.rs: [log, res, self] *)
aht30_read(self, env) ==
    LET w == write(env, 1, self.address, <<172, 51, 0>>)
        r == i2c_read(env, 2, self.address, 7)
    IN  IF ~w.ok
        THEN [log |-> <<w.ev>>, res |-> Err(Raw(env.err)), self |-> self]
        ELSE IF ~r.ok
        THEN [ log |-> <<w.ev, Delay(80), r.ev>>, res |-> Err(Raw(env.err)),
               self |-> self ]
        ELSE [ log |-> <<w.ev, Delay(80), r.ev>>, res |-> aht30_check(r.data),
               self |-> self ]

(* the six bytes before the checksum: equal bytes, rising bytes and bytes  *)
(* that change in both nibbles, with bit 7 of the first byte clear and set *)
AhtPayloads == {Block(6, a, s) : a \in BlockStarts, s \in BlockSteps}

(* each payload with its checksum and with a checksum that is off by one *)
AhtSamples ==
    {p \o <<calc_crc8(p)>> : p \in AhtPayloads}
    \cup {p \o <<(calc_crc8(p) + 1) % 256>> : p \in AhtPayloads}

AhtEnv(sample, f) == [sample |-> sample, failAt |-> f.failAt, err |-> f.err]

(* the caller holds a Driver of aht30.rs at the default address 0x38 *)
InitAht ==
    /\ handle = <<[address |-> 56]>>
    /\ call = [ op |-> "none", arg |-> <<>>, before |-> <<>>, log |-> <<>>,
                res |-> Ok(<<>>), prior |-> NoPrior ]
    /\ lastLoad = [tp |-> <<>>, h |-> <<>>]
    /\ device = PowerOnConfig
    /\ pointer = 0

(* the outcome r of method op of a driver that is not the BME280's *)
AfterCall(op, r) ==
    /\ handle' = <<r.self>>
    /\ call' = [ op |-> op, arg |-> <<>>, before |-> handle, log |-> r.log,
                 res |-> r.res, prior |-> Prior ]
    /\ UNCHANGED <<lastLoad, device, pointer>>

AhtRead ==
    \E sample \in AhtSamples, f \in Failures(2) :
        AfterCall("aht30::read", aht30_read(handle[1], AhtEnv(sample, f)))

AhtStatusFrom ==
    /\ call.op = "none"
    /\ \E data \in 0..255 :
          Applied("Status::from", <<data>>, StatusFrom(data))

NextAht == AhtRead \/ AhtStatusFrom

SpecAht == InitAht /\ [][NextAht]_vars

(* the bits of the bytes of data from byte i on, each byte's bit 7 first *)
RECURSIVE BitsMsbFirst(_, _)
BitsMsbFirst(data, i) ==
    IF i > Len(data) THEN <<>>
    ELSE [k \in 1..8 |-> (data[i] \div Pow2(8 - k)) % 2]
         \o BitsMsbFirst(data, i + 1)

(* CRC-8 with polynomial 0x31 of a bit string fed bit by bit, most         *)
(* significant first, into the register crc                                *)
RECURSIVE Crc8OfBits(_, _, _)
Crc8OfBits(bits, i, crc) ==
    IF i > Len(bits) THEN crc
    ELSE CHOOSE r \in {Crc8OfBits(bits, i + 1, c) :
                          c \in {IF (crc \div 128) # bits[i]
                                 THEN BitXor((crc * 2) % 256, 49)
                                 ELSE (crc * 2) % 256}} : TRUE

(* C25: read of aht30.rs writes [0xAC, 0x33, 0x00], waits 80 ms and reads  *)
(* 7 bytes, in this order; with the 7 bytes read it returns Crc when the   *)
(* CRC-8 (initial value 0xFF, polynomial 0x31, most significant bit first) *)
(* of the first six is not the seventh, Busy when it is and bit 7 of the   *)
(* first byte is set, and a pair of values when it is and bit 7 is clear;  *)
(* it returns a pair in no other case.                                     *)
C25_AhtRead ==
    call.op = "aht30::read" =>
        /\ call.log[1].kind = "write" /\ call.log[1].bytes = <<172, 51, 0>>
        /\ call.log[1].err # NoErr => Len(call.log) = 1
        /\ call.log[1].err = NoErr =>
              /\ Len(call.log) = 3
              /\ call.log[2] = Delay(80)
              /\ call.log[3].kind = "read" /\ call.log[3].len = 7
        /\ call.res.ok => (Len(call.log) = 3 /\ call.log[3].err = NoErr)
        /\ (Len(call.log) = 3 /\ call.log[3].err = NoErr) =>
              LET d == call.log[3].data
                  matches ==
                      Crc8OfBits(BitsMsbFirst(SubSeq(d, 1, 6), 1), 1, 255)
                          = d[7]
              IN  /\ ~matches => call.res = Err(ErrorCrc)
                  /\ (matches /\ d[1] >= 128) => call.res = Err(ErrorBusy)
                  /\ (matches /\ d[1] < 128) => call.res.ok

C25_Witness ==
    /\ call.op = "aht30::read" /\ call.res = Err(ErrorCrc)
    /\ call.log[3].data[1] >= 128
    /\ call.prior = [op |-> "aht30::read", ok |-> TRUE]

(* C26: Status::from gives the mode NOR for bits 6 and 5 being 00, CYC for *)
(* 01 (bit 6 clear, bit 5 set) and CMD for 1x, whatever the other bits.    *)
C26_ModeAsDocumented ==
    call.op = "Status::from" =>
        call.res.val.mode =
            ( IF (call.arg[1] \div 64) % 2 = 1 THEN "CMD"
              ELSE IF (call.arg[1] \div 32) % 2 = 1 THEN "CYC"
              ELSE "NOR" )

(* Status::from(0x20) gives CMD *)
C26_CycIsCmd ==
    /\ call.op = "Status::from" /\ call.arg = <<32>>
    /\ call.res.val.mode = "CMD"

(* ======================= AntishakeDriver (button.rs) ==================== *)

(* PinState::High is TRUE, PinState::Low is FALSE.  The pin of one call,   *)
(* env = [rounds, failAt, err]: sample 8 * (r - 1) + j of the call is bit  *)
(* 8 - j of rounds[r], 1 for a high level, and is_high fails with err at   *)
(* sample failAt (never when 0).                                           *)
SampleAt(env, i) ==
    (env.rounds[((i - 1) \div 8) + 1] \div Pow2(7 - ((i - 1) % 8))) % 2 = 1

PinEvent(env, i) ==
    IF env.failAt = i
    THEN [kind |-> "is_high", level |-> FALSE, err |-> env.err]
    ELSE [kind |-> "is_high", level |-> SampleAt(env, i), err |-> NoErr]

ErrorNotReady == [tag |-> "NotReady", err |-> NoErr]

(* cnt after the samples start + k .. start + 7 of AntishakeDriver::read,  *)
(* cnt being the u8 it holds after the first k                             *)
RECURSIVE button_cnt(_, _, _, _)
button_cnt(env, start, k, cnt) ==
    IF k = 8 THEN cnt
    ELSE button_cnt(env, start, k + 1,
                    IF SampleAt(env, start + k) THEN BitOr((cnt * 2) % 256, 1)
                    ELSE (cnt * 2) % 256)

(* the Option AntishakeDriver::read makes of cnt, taking the level of the  *)
(* first sample alone                                                      *)
button_outcome_first_sample(cnt, in_level) ==
    IF cnt >= 128 THEN <<in_level = TRUE>> ELSE <<in_level = FALSE>>

(* the Option AntishakeDriver::read makes of cnt: <<>> is None *)
button_outcome(cnt, in_level) ==
    IF cnt = 255 THEN <<in_level = TRUE>>
    ELSE IF cnt = 0 THEN <<in_level = FALSE>>
    ELSE <<>>

(* AntishakeDriver::read, its first sample being sample start of the call: *)
(* [log, res]                                                              *)
button_read(env, start, in_level) ==
    IF env.failAt \in start..(start + 7)
    THEN [ log |-> [i \in 1..(env.failAt - start + 1) |->
                        PinEvent(env, start + i - 1)],
           res |-> Err(env.err) ]
    ELSE [ log |-> [i \in 1..8 |-> PinEvent(env, start + i - 1)],
           res |-> Ok(button_outcome(button_cnt(env, start, 0, 0), in_level)) ]

(* the number of rounds AntishakeDriver::new tries *)
MaxRounds == 10

(* AntishakeDriver::new from round number round + 1 on, log being the      *)
(* samples taken so far and r the outcome of this round's read             *)
RECURSIVE button_new_from(_, _, _, _)
RECURSIVE button_new_round(_, _, _, _, _)
button_new_round(env, in_level, round, log, r) ==
    IF ~r.res.ok
    THEN [log |-> log \o r.log, res |-> Err(Raw(r.res.err))]
    ELSE IF r.res.val # <<>>
    THEN [ log |-> log \o r.log,
           res |-> Ok([in_level |-> in_level, last_state |-> r.res.val[1]]) ]
    ELSE button_new_from(env, in_level, round + 1, log \o r.log)

button_new_from(env, in_level, round, log) ==
    IF round = MaxRounds THEN [log |-> log, res |-> Err(ErrorNotReady)]
    ELSE button_new_round(env, in_level, round, log,
                          button_read(env, 8 * round + 1, in_level))

(* AntishakeDriver::new(pin, in_level): [log, res] *)
button_new(env, in_level) == button_new_from(env, in_level, 0, <<>>)

(* what AntishakeDriver::state makes of its read's outcome r *)
button_state_after(self, r) ==
    IF ~r.res.ok THEN [log |-> r.log, res |-> r.res, self |-> self]
    ELSE IF r.res.val # <<>>
    THEN [ log |-> r.log, res |-> Ok(r.res.val[1]),
           self |-> [self EXCEPT !.last_state = r.res.val[1]] ]
    ELSE [log |-> r.log, res |-> Ok(self.last_state), self |-> self]

(* AntishakeDriver::state: [log, res, self] *)
button_state(self, env) ==
    button_state_after(self, button_read(env, 1, self.in_level))

(* the eight levels of a round: steady low, steady high, and bouncing ones *)
(* that differ in the first, in the last or in every other sample          *)
RoundPatterns == {0, 255, 1, 128, 170, 254}
UnstablePatterns == {1, 170}

(* for how many rounds the pin bounces while new runs *)
BouncingRounds == {0, 1, 2, MaxRounds - 1, MaxRounds}

PinErrors == {"PinFault"}

(* the samples of a call at which is_high may fail: none, the first, one   *)
(* inside a round, the last of a round, and ones in later rounds           *)
PinFailures ==
    {NoFailure}
    \cup {[failAt |-> k, err |-> e] : k \in {1, 8, 12, 80}, e \in PinErrors}

PinEnv(rounds, f) == [rounds |-> rounds, failAt |-> f.failAt, err |-> f.err]

InitButton ==
    /\ handle = <<>>
    /\ call = [ op |-> "none", arg |-> <<>>, before |-> <<>>, log |-> <<>>,
                res |-> Ok(<<>>), prior |-> NoPrior ]
    /\ lastLoad = [tp |-> <<>>, h |-> <<>>]
    /\ device = PowerOnConfig
    /\ pointer = 0

(* the caller holds what AntishakeDriver::new returned *)
AfterButtonNew(in_level, r) ==
    /\ handle' = IF r.res.ok THEN <<r.res.val>> ELSE <<>>
    /\ call' = [ op |-> "AntishakeDriver::new", arg |-> <<in_level>>,
                 before |-> handle, log |-> r.log,
                 res |-> IF r.res.ok THEN Ok(<<>>) ELSE r.res,
                 prior |-> Prior ]
    /\ UNCHANGED <<lastLoad, device, pointer>>

(* the pin bounces for k rounds and then shows the levels p *)
ButtonNew ==
    /\ handle = <<>>
    /\ \E in_level \in BOOLEAN, k \in BouncingRounds, u \in UnstablePatterns,
          p \in RoundPatterns, f \in PinFailures :
          AfterButtonNew(in_level,
              button_new(PinEnv([i \in 1..MaxRounds |->
                                    IF i <= k THEN u ELSE p], f),
                         in_level))

ButtonState ==
    /\ handle # <<>>
    /\ \E p \in RoundPatterns, f \in PinFailures :
          AfterCall("AntishakeDriver::state",
                    button_state(handle[1], PinEnv(<<p>>, f)))

NextButton == ButtonNew \/ ButtonState

SpecButton == InitButton /\ [][NextButton]_vars

(* no sample of log failed *)
NoPinError(log) == \A i \in 1..Len(log) : log[i].err = NoErr

(* the samples 8 * (r - 1) + 1 .. 8 * r of log all show the same level *)
RoundAgrees(log, r) ==
    \A i \in (8 * (r - 1) + 1)..(8 * r) :
        log[i].level = log[8 * (r - 1) + 1].level

(* C27: a state() whose samples all succeed takes 8 samples; when they all *)
(* agree, last_state becomes whether their level is in_level, and is       *)
(* returned; when they disagree, last_state stays as it was and is         *)
(* returned.  new returns NotReady exactly when it took 10 rounds of 8     *)
(* samples and none of them agreed, and the Driver it returns holds the    *)
(* value of the first round that agreed.                                   *)
C27_Debounce ==
    /\ (call.op = "AntishakeDriver::state" /\ NoPinError(call.log)) =>
          /\ Len(call.log) = 8
          /\ call.res = Ok(handle[1].last_state)
          /\ handle[1].in_level = call.before[1].in_level
          /\ handle[1].last_state =
                IF RoundAgrees(call.log, 1)
                THEN (call.log[1].level = handle[1].in_level)
                ELSE call.before[1].last_state
    /\ call.op = "AntishakeDriver::new" =>
          /\ call.res = Err(ErrorNotReady) <=>
                /\ Len(call.log) = 8 * MaxRounds /\ NoPinError(call.log)
                /\ \A r \in 1..MaxRounds : ~RoundAgrees(call.log, r)
          /\ call.res.ok =>
                /\ NoPinError(call.log)
                /\ Len(call.log) % 8 = 0
                /\ Len(call.log) \div 8 \in 1..MaxRounds
                /\ \A r \in 1..(Len(call.log) \div 8 - 1) :
                      ~RoundAgrees(call.log, r)
                /\ RoundAgrees(call.log, Len(call.log) \div 8)
                /\ handle[1].in_level = call.arg[1]
                /\ handle[1].last_state =
                      (call.log[Len(call.log)].level = call.arg[1])

C27_Witness ==
    /\ call.op = "AntishakeDriver::state" /\ NoPinError(call.log)
    /\ ~RoundAgrees(call.log, 1)
    /\ call.res = Ok(TRUE)
    /\ call.prior = [op |-> "AntishakeDriver::state", ok |-> TRUE]
    /\ handle[1].in_level = FALSE

(* ======================= HX711 (hx711.rs) =============================== *)

(* ChannelGain and `channel_gain as u8` *)
ChannelGains == {"ChannelA128", "ChannelB32", "ChannelA64"}

ChannelGainAsU8(g) ==
    IF g = "ChannelA128" THEN 1 ELSE IF g = "ChannelB32" THEN 2 ELSE 3

DelayMicros(us) == [kind |-> "delay_us", us |-> us]

(* The pins of one call, env = [ready, bits, failIn, failOut, err]: the    *)
(* data pin is low on entry iff ready; the k-th sample after that shows    *)
(* bit 24 - k of bits; the failIn-th read of the data pin and the          *)
(* failOut-th write of the clock pin fail with err (none when 0).          *)
DataRead(env, n, kind, level) ==
    IF env.failIn = n THEN [kind |-> kind, level |-> FALSE, err |-> env.err]
    ELSE [kind |-> kind, level |-> level, err |-> NoErr]

ClockWrite(env, n, kind) ==
    [kind |-> kind, err |-> IF env.failOut = n THEN env.err ELSE NoErr]

HxBit(env, k) == (env.bits \div Pow2(24 - k)) % 2 = 1

(* step number j of one of the first 24 pulses, number i, of Driver::read  *)
(* of hx711.rs: set_high, delay, is_high, set_low, delay                   *)
HxDataPulseStep(env, i, j) ==
    IF j = 1 THEN ClockWrite(env, 2 * i - 1, "set_high")
    ELSE IF j = 3 THEN DataRead(env, i + 1, "is_high", HxBit(env, i))
    ELSE IF j = 4 THEN ClockWrite(env, 2 * i, "set_low")
    ELSE DelayMicros(1)

(* step number j of pulse i of the channel and gain loop: set_high, delay, *)
(* set_low, delay                                                          *)
HxGainPulseStep(env, i, j) ==
    IF j = 1 THEN ClockWrite(env, 2 * i - 1, "set_high")
    ELSE IF j = 3 THEN ClockWrite(env, 2 * i, "set_low")
    ELSE DelayMicros(1)

(* the steps of the 24 data pulses and the g pulses that follow them *)
HxPulses(env, g) ==
    [n \in 1..(120 + 4 * g) |->
        IF n <= 120
        THEN HxDataPulseStep(env, ((n - 1) \div 5) + 1, ((n - 1) % 5) + 1)
        ELSE HxGainPulseStep(env, 25 + ((n - 121) \div 4),
                             ((n - 121) % 4) + 1)]

(* the first step of steps that fails, 0 when none does *)
FirstFailure(steps) ==
    IF \A i \in 1..Len(steps) :
          steps[i].kind = "delay_us" \/ steps[i].err = NoErr
    THEN 0
    ELSE CHOOSE i \in 1..Len(steps) :
            /\ steps[i].kind # "delay_us" /\ steps[i].err # NoErr
            /\ \A j \in 1..(i - 1) :
                  steps[j].kind = "delay_us" \/ steps[j].err = NoErr

(* raw_data after the samples k .. 24, raw being what it is before them *)
RECURSIVE hx711_shift(_, _, _)
hx711_shift(env, k, raw) ==
    IF k > 24 THEN raw
    ELSE CHOOSE r \in {hx711_shift(env, k + 1, next) :
                          next \in {IF HxBit(env, k) THEN BitOr(raw * 2, 1)
                                    ELSE raw * 2}} : TRUE

(* the return value made of raw_data with no sign extension *)
hx711_value_unsigned(raw_data) == BitAnd(raw_data, 16777215)

(* the return value made of raw_data: the low 24 bits, and with bit 23 set *)
(* (raw_data | 0xFF000000) as i32; the or adds 2^32 - 2^24, the bits 24 to *)
(* 31 being clear before                                                   *)
hx711_value(raw_data) ==
    IF BitAnd(BitAnd(raw_data, 16777215), 8388608) # 0
    THEN ToInt(Wrap(BAdd(I(BitAnd(raw_data, 16777215)),
                         BSub(BPow2(32), BPow2(24))), 32))
    ELSE BitAnd(raw_data, 16777215)

ErrorInput(e) == [tag |-> "Input", err |-> e]
ErrorOutput(e) == [tag |-> "Output", err |-> e]

(* Driver::read of hx711.rs past the ready test, steps being what it does  *)
(* when nothing fails and at being the first step that fails               *)
hx711_read_steps(self, env, steps, at) ==
    IF at = 0
    THEN [ log |-> steps, res |-> Ok(hx711_value(hx711_shift(env, 1, 0))),
           self |-> self ]
    ELSE [ log |-> SubSeq(steps, 1, at),
           res |-> IF steps[at].kind = "is_high"
                   THEN Err(ErrorInput(env.err))
                   ELSE Err(ErrorOutput(env.err)),
           self |-> self ]

hx711_read_pulses(self, env, steps) ==
    hx711_read_steps(self, env, steps, FirstFailure(steps))

(* Driver::read of hx711.rs: [log, res, self] *)
hx711_read(self, env) ==
    IF env.failIn = 1
    THEN [ log |-> <<DataRead(env, 1, "is_low", env.ready)>>,
           res |-> Err(ErrorInput(env.err)), self |-> self ]
    ELSE IF ~env.ready
    THEN [ log |-> <<DataRead(env, 1, "is_low", FALSE)>>,
           res |-> Err(ErrorNotReady), self |-> self ]
    ELSE hx711_read_pulses(self, env,
             <<DataRead(env, 1, "is_low", TRUE)>>
             \o HxPulses(env, ChannelGainAsU8(self.channel_gain)))

(* Driver::set_channel_gain *)
hx711_set_channel_gain(self, gain) ==
    [log |-> <<>>, res |-> Ok(<<>>), self |-> [self EXCEPT !.channel_gain = gain]]

(* 24-bit codes: zero, one, the largest positive, the most negative, minus *)
(* one, and two with mixed bits on either side of the sign                 *)
HxCodes == {0, 1, 8388607, 8388608, 16777215, 11259375, 5592405}

HxErrors == {"PinFault"}

(* which pin access fails: none, the ready test, a sample, or a clock edge *)
(* among the data pulses or among the gain pulses                          *)
HxFailures ==
    { [failIn |-> 0, failOut |-> 0, err |-> NoErr] }
    \cup {[failIn |-> k, failOut |-> 0, err |-> e] :
             k \in {1, 2, 25}, e \in HxErrors}
    \cup {[failIn |-> 0, failOut |-> k, err |-> e] :
             k \in {1, 48, 49, 50, 52, 54}, e \in HxErrors}

HxEnv(ready, bits, f) ==
    [ ready |-> ready, bits |-> bits, failIn |-> f.failIn,
      failOut |-> f.failOut, err |-> f.err ]

(* the caller holds a Driver of hx711.rs with some channel and gain *)
InitHx ==
    /\ \E g \in ChannelGains : handle = <<[channel_gain |-> g]>>
    /\ call = [ op |-> "none", arg |-> <<>>, before |-> <<>>, log |-> <<>>,
                res |-> Ok(<<>>), prior |-> NoPrior ]
    /\ lastLoad = [tp |-> <<>>, h |-> <<>>]
    /\ device = PowerOnConfig
    /\ pointer = 0

HxRead ==
    \E ready \in BOOLEAN, bits \in HxCodes, f \in HxFailures :
        AfterCall("hx711::read", hx711_read(handle[1], HxEnv(ready, bits, f)))

HxSetChannelGain ==
    \E gain \in ChannelGains :
        AfterCall("hx711::set_channel_gain",
                  hx711_set_channel_gain(handle[1], gain))

NextHx == HxRead \/ HxSetChannelGain

SpecHx == InitHx /\ [][NextHx]_vars

IsClockEdge(e) == e.kind \in {"set_high", "set_low"}
IsDataSample(e) == e.kind = "is_high"

(* how many of the first n steps of log are of the given kind *)
CountKind(log, n, kind) == Cardinality({i \in 1..n : log[i].kind = kind})

(* the number the 24 samples spell, the first sample being its bit 23, as  *)
(* a two's-complement number of 24 bits                                    *)
RECURSIVE BitsValue(_, _)
BitsValue(samples, k) ==
    IF k > Len(samples) THEN 0
    ELSE (IF samples[k].level THEN Pow2(24 - k) ELSE 0)
         + BitsValue(samples, k + 1)

TwosComplement24(samples) ==
    IF samples[1].level THEN BitsValue(samples, 1) - 16777216
    ELSE BitsValue(samples, 1)

(* C28: read of hx711.rs, finding the data pin high on entry, returns      *)
(* NotReady and touches the clock pin not at all.  A successful read makes *)
(* 24 + g pulses, high then low, g being 1, 2, 3 for ChannelA128,          *)
(* ChannelB32, ChannelA64; it samples the data pin once in each of the     *)
(* first 24 pulses, after the rising and before the falling edge, and not  *)
(* in the others; it leaves the clock low; and it returns the 24 samples,  *)
(* first sample first, as a two's-complement number, which lies in         *)
(* -2^23 .. 2^23 - 1.                                                      *)
C28_HxRead ==
    call.op = "hx711::read" =>
        LET log == call.log
            g == IF handle[1].channel_gain = "ChannelA128" THEN 1
                 ELSE IF handle[1].channel_gain = "ChannelB32" THEN 2
                 ELSE 3
            edges == SelectSeq(log, IsClockEdge)
            samples == SelectSeq(log, IsDataSample)
        IN  /\ log[1].kind = "is_low"
            /\ (log[1].err = NoErr /\ ~log[1].level) =>
                  /\ call.res = Err(ErrorNotReady)
                  /\ edges = <<>> /\ Len(log) = 1
            /\ call.res.ok =>
                  /\ log[1].level
                  /\ Len(edges) = 2 * (24 + g)
                  /\ \A i \in 1..Len(edges) :
                        edges[i].kind =
                            IF i % 2 = 1 THEN "set_high" ELSE "set_low"
                  /\ Len(samples) = 24
                  /\ \A i \in 1..Len(log) :
                        log[i].kind = "is_high" =>
                            /\ CountKind(log, i, "set_high")
                                  = CountKind(log, i, "is_high")
                            /\ CountKind(log, i, "set_low")
                                  = CountKind(log, i, "is_high") - 1
                  /\ call.res.val = TwosComplement24(samples)
                  /\ call.res.val \in -8388608..8388607
                  /\ handle = call.before

C28_Witness ==
    /\ call.op = "hx711::read" /\ call.res.ok
    /\ call.res.val = -5517841
    /\ handle[1].channel_gain = "ChannelA64"
    /\ call.prior = [op |-> "hx711::set_channel_gain", ok |-> TRUE]

(* ---------------- whole-percent humidity -------------------------------- *)

(* 2^22: the weight of one percent in the clamped accumulator *)
PercentUnit == I(4194304)

(* C31: the humidity compensate_humidity returns is a whole number of      *)
(* percent k in 0..100, the one with k * 2^22 <= acc < (k + 1) * 2^22 for  *)
(* the clamped accumulator acc: the shift by 12 and the integer division   *)
(* by 1024 drop the fraction of the Q22.10 value before the conversion.    *)
C31_WholePercent ==
    call.op = "compensate_humidity" =>
        LET v == call.res.val
        IN  \E k \in 0..100 :
                /\ v.humidity.num = BMul(I(k), I(v.humidity.den))
                /\ BLe(BMul(I(k), PercentUnit), v.acc)
                /\ BLt(v.acc, BMul(I(k + 1), PercentUnit))

(* a call whose accumulator is inside the range of the clamps and carries  *)
(* a fraction of a percent that the returned value has lost                *)
C31_Witness ==
    /\ call.op = "compensate_humidity"
    /\ BLt(BZero, call.res.val.var5)
    /\ BLt(call.res.val.var5, HumidityMax)
    /\ call.res.val.humidity.den = 1
    /\ BLt(BZero, call.res.val.humidity.num)
    /\ BLt(BMul(call.res.val.humidity.num, PercentUnit), call.res.val.acc)

=============================================================================
